---- MODULE Spec2Model ----
(***************************************************************************)
(* Standby replication commit hook of dolt                                 *)
(* (go/libraries/doltcore/sqle/cluster/commithook.go).                     *)
(*                                                                         *)
(* One hook, its replicate goroutine, its ticker goroutine, the run        *)
(* goroutine that waits for the context, a controller thread calling       *)
(* setRole, and session threads calling Execute and NotifyWaitFailed.      *)
(* h.mu is modelled by the variable mu: a thread that holds it over more   *)
(* than one step is named there; the other callers take and release it     *)
(* inside one step.                                                        *)
(***************************************************************************)
EXTENDS Integers, Sequences, FiniteSets, TLC

\* ---- bounds of the model ----
MaxTime == 3
MaxChans == 2
MaxCalls == 2
MaxProviderCalls == 2

\* ---- values ----
\* hash.Hash: the zero hash and two roots of the source database
ZeroHash == 0
Heads == {1, 2}
ZeroTime == 0

RolePrimary == "primary"
RoleStandby == "standby"
RoleDetectedBrokenConfig == "detected_broken_config"
Roles == {RolePrimary, RoleStandby, RoleDetectedBrokenConfig}

\* an error is the sequence of its messages, outermost first; nil is the empty one
NoError == <<>>
errDetectedBrokenConfigStr ==
    <<"error: more than one server was configured as primary in the same epoch. this server has stopped accepting writes.">>
errDestDBRootHashMoved ==
    <<"cluster/commithook: standby replication: destination database root hash moved during our write, while it is assumed we are the only writer.">>
\* the error of a remote call that fails
errRemote == <<"remote error">>
ErrFetchDestDB(e) == <<"could not replicate to standby: error fetching destDB">> \o e
ErrCommitChunks(e) == <<"failed to commit chunks on destDB">> \o e

\* what Execute returned: no waitF, the failing waitF, or one that blocks on a channel
WaitNil == <<"nil", 0>>
WaitFastFail == <<"circuit breaker for replication is open. this commit did not necessarily replicate successfully.", 0>>
WaitOn(ch) == <<"wait", ch>>
NoCall == <<"none", 0>>

\* no iteration of replicate yet
NoIter == [kind |-> "none", notified |-> <<>>]

VARIABLES
    \* fields of commithook
    role, nextHead, lastPushedHead, nextPushAttempt, nextHeadIncomingTime,
    lastSuccess, currentError, cancelReplicate, successChs,
    fastFailReplicationWait, destDB, shutdown, mu,
    \* the replicate goroutine: position and locals
    wpc, shouldHeartbeat, toPush, incomingTime, capturedChs, err,
    curRootHash, lastAttempt, head,
    \* the other goroutines
    tpc, rpc, spc, setRoleArg,
    \* the world outside the hook
    now, destRoot, chans,
    \* observations: the waitF the last Execute returned, attempts in flight,
    \* whether the cancel function of the context in use has been called,
    \* what the latest blocking waitF waits for, whether a push succeeded
    \* since NotifyWaitFailed, the channels open when the shutdown began,
    execRet, inflightPushes, cancelCalled, waiter, pushedSinceFastFail, shutdownOpen,
    \* the values nextHead has held since the role was last set
    epochHeads,
    \* what the waitF of the last Execute returned to its caller, "none" before it returns
    waitFRet,
    \* what the last call of status() returned, <<>> before any call
    statusRet,
    \* the field waitNotify of commithook: "nil" or the callback installed
    waitNotify,
    \* what the last setWaitNotify returned and how often it called its argument
    setWaitNotifyRet,
    \* the last Execute on the primary with no role change or failure since: its root, its result, the pushes of that root since
    prevExec,
    \* the latest iteration of the loop of replicate that did something: what it was
    \* ("init", "attempt" or "idle") and the callbacks it called
    iter,
    \* calls made so far by the threads outside the hook
    calls,
    \* fields of DoltDatabaseProvider: the two maps, *isStandby, whether DropDatabaseHook
    \* is set, and the holder of mu (0 when free)
    databases, dbLocations, isStandby, dropHook, pmu,
    \* the file system p.fs: what is at each path
    fs,
    \* the threads calling the provider: position, argument, captured values, the
    \* steps of the call in progress or last made, and its result
    ppc, parg, pcap, ptrace, pret,
    \* calls made so far to the provider
    pcalls

hookVars == <<role, nextHead, lastPushedHead, nextPushAttempt, nextHeadIncomingTime,
              lastSuccess, currentError, cancelReplicate, successChs,
              fastFailReplicationWait, destDB>>
headVars == <<nextHead, lastPushedHead, nextPushAttempt, nextHeadIncomingTime, lastSuccess>>
localVars == <<toPush, incomingTime, capturedChs, err, curRootHash, lastAttempt, head>>
threadVars == <<tpc, rpc, spc, setRoleArg>>
obsVars == <<execRet, inflightPushes, cancelCalled, waiter, pushedSinceFastFail, shutdownOpen,
            epochHeads, waitFRet, statusRet, waitNotify, setWaitNotifyRet, prevExec, iter>>
provVars == <<databases, dbLocations, isStandby, dropHook, pmu, fs, ppc, parg, pcap,
              ptrace, pret, pcalls>>
vars == <<role, nextHead, lastPushedHead, nextPushAttempt, nextHeadIncomingTime,
          lastSuccess, currentError, cancelReplicate, successChs,
          fastFailReplicationWait, destDB, shutdown, mu,
          wpc, shouldHeartbeat, toPush, incomingTime, capturedChs, err,
          curRootHash, lastAttempt, head, tpc, rpc, spc, setRoleArg, now, destRoot,
          chans, execRet, inflightPushes, cancelCalled, waiter, pushedSinceFastFail,
          shutdownOpen,
          epochHeads,
          waitFRet,
          statusRet,
          waitNotify,
          setWaitNotifyRet,
          prevExec, iter, calls,
          databases, dbLocations, isStandby, dropHook, pmu, fs, ppc, parg, pcap, ptrace,
          pret, pcalls>>

\* ---- helpers ----
ChanIds == 1..MaxChans
NoWaiter == [ch |-> 0, heads |-> {}, sat |-> FALSE]

\* the context handed to replicate() has been cancelled
ctxDone == rpc # "running"

\* cond.Signal(): wakes the replicate goroutine if it is blocked in cond.Wait()
Signal(pc) == IF pc = "wait" THEN "woken" ELSE pc

\* the comparison of line 203 the wrong way round
CaughtUpInverted(r, nh, lph) ==
    IF r # RolePrimary THEN TRUE
    ELSE IF nh = ZeroHash THEN FALSE
    ELSE nh # lph

\* isCaughtUp, lines 196-204, as a function of the fields it reads
CaughtUp(r, nh, lph) ==
    IF r # RolePrimary THEN TRUE
    ELSE IF nh = ZeroHash THEN FALSE
    ELSE nh = lph

\* a zero nextHead counted as caught up
isCaughtUpZeroHead == role # RolePrimary \/ nextHead = ZeroHash \/ nextHead = lastPushedHead

isCaughtUp == CaughtUp(role, nextHead, lastPushedHead)

\* line 190 with Before in the place of After: no retry once the backoff has passed
shouldReplicateBefore ==
    IF isCaughtUp THEN FALSE
    ELSE nextPushAttempt = ZeroTime \/ now < nextPushAttempt

\* shouldReplicate, lines 186-191
shouldReplicate ==
    IF isCaughtUp THEN FALSE
    ELSE nextPushAttempt = ZeroTime \/ now > nextPushAttempt

primaryNeedsInit == role = RolePrimary /\ nextHead = ZeroHash

\* make(chan struct{}): the next channel not yet made, 0 when the model has none left
FreshCh == IF \E c \in ChanIds : chans[c] = "unmade"
           THEN CHOOSE c \in ChanIds : chans[c] = "unmade" /\ \A d \in ChanIds : chans[d] = "unmade" => c <= d
           ELSE 0

OpenChans == {c \in ChanIds : chans[c] = "open"}

CloseAll(cs, chs) == [c \in ChanIds |-> IF \E i \in 1..Len(chs) : chs[i] = c THEN "closed" ELSE cs[c]]

\* the context of the attempt or heartbeat in flight is done
attemptCtxDone == cancelCalled \/ (ctxDone /\ ~lastAttempt)

\* waiter describes the blocking waitF handed out most recently: its channel, the
\* heads it accepts (the root of its Execute and every head Execute stored in
\* nextHead since), and whether one of them has been the pushed head since
Waiting(w) == w.ch # 0 /\ chans[w.ch] = "open"

NoteHead(w, h, lph) ==
    IF Waiting(w)
    THEN [w EXCEPT !.heads = @ \cup {h}, !.sat = @ \/ lph \in (w.heads \cup {h})]
    ELSE w

NotePush(w, h) ==
    IF Waiting(w) THEN [w EXCEPT !.sat = @ \/ h \in w.heads] ELSE w

\* ---- the database provider: values ----

\* the threads that call the provider
Threads == {1, 2}

\* database names as the callers write them, and revisions; a name is <<base, revision>>,
\* with revision "" when the name has no dsess.DbRevisionDelimiter
Bases == {"Db", "other"}
Revs == {"", "main"}

\* strings.ToLower on the names of the model
ToLower(s) == IF s = "Db" THEN "db" ELSE s

\* formatDbMapKeyName, lines 1507-1516: the base in lower case, the revision as it is
formatDbMapKeyName(name) == <<ToLower(name[1]), name[2]>>

\* the keys the maps can hold
Keys == {formatDbMapKeyName(<<b, r>>) : b \in Bases, r \in Revs}
BaseKeys == {ToLower(b) : b \in Bases}

\* the implementations of dsess.SqlDatabase the provider stores: the three that
\* wrapForStandby and databaseForRevision tell apart, and one of another type that
\* cannot be addressed by a revision
Kinds == {"Database", "ReadOnlyDatabase", "ReadReplicaDatabase", "SqlDatabase"}

\* SqlDatabase.Versioned(): whether the database can be addressed by a revision
Versioned(k) == k # "SqlDatabase"

\* the paths of p.fs in the model: a directory per name, and the .dolt directory of a
\* database that lives in the root of the provider
DoltDir == ".dolt"
Paths == Bases \cup {DoltDir}

\* the location of a database that lives in the root of the provider
RootLoc == "."

\* wrapForStandby, lines 202-214
wrapForStandby(k, standby) ==
    IF ~standby THEN k
    ELSE IF k = "ReadOnlyDatabase" THEN k
    ELSE IF k = "Database" THEN "ReadOnlyDatabase"
    ELSE k

\* the result of a call: the operation, the error ("nil" for none) and, for a lookup
\* that found a database, its kind
Ret(op, e, k) == [op |-> op, err |-> e, db |-> k]
NoRet == Ret("none", "nil", "none")

\* what every provider of the model starts with, lines 115-126: mu free, *isStandby
\* false, and the threads before their first call
ProviderIdle ==
    /\ isStandby = FALSE
    /\ pmu = 0
    /\ ppc = [t \in Threads |-> "idle"]
    /\ parg = [t \in Threads |-> <<"Db", "">>]
    /\ pcap = [t \in Threads |-> [db |-> "none", standby |-> FALSE]]
    /\ ptrace = [t \in Threads |-> <<>>]
    /\ pret = [t \in Threads |-> NoRet]
    /\ pcalls = 0

\* NewDoltDatabaseProvider, lines 73-75: no database, nothing on the file system
NewDoltDatabaseProvider ==
    /\ databases = [k \in Keys |-> "none"]
    /\ dbLocations = [k \in BaseKeys |-> "none"]
    /\ dropHook = FALSE
    /\ fs = [p \in Paths |-> "none"]
    /\ ProviderIdle

\* NewDoltDatabaseProviderWithDatabases, lines 87-127: the database "other" of some
\* kind and its revision "main", in a directory of its own or in the root of the
\* provider; DropDatabaseHook is nil here and set or not by the caller afterwards
NewDoltDatabaseProviderWithDatabases ==
    /\ \E k \in Kinds :
           databases = [key \in Keys |-> IF key[1] = "other" THEN k ELSE "none"]
    /\ \E loc \in {"other", RootLoc} :
           /\ dbLocations = [k \in BaseKeys |-> IF k = "other" THEN loc ELSE "none"]
           /\ fs = [p \in Paths |->
                       IF p = "other" /\ loc = "other" THEN "dir"
                       ELSE IF p = DoltDir /\ loc = RootLoc THEN "dir"
                       ELSE "none"]
    /\ dropHook \in BOOLEAN
    /\ ProviderIdle

\* the hook that newCommitHook returns, lines 92-105, and the world around it
InitCommitHook ==
    /\ role \in Roles
    /\ nextHead = ZeroHash
    /\ lastPushedHead = ZeroHash
    /\ nextPushAttempt = ZeroTime
    /\ nextHeadIncomingTime = ZeroTime
    /\ lastSuccess = ZeroTime
    /\ currentError = NoError
    /\ cancelReplicate = FALSE
    /\ successChs = <<>>
    /\ fastFailReplicationWait = FALSE
    /\ destDB = FALSE
    /\ shutdown = FALSE
    /\ mu = "none"
    /\ wpc = "start"
    /\ shouldHeartbeat = FALSE
    /\ toPush = ZeroHash
    /\ incomingTime = ZeroTime
    /\ capturedChs = <<>>
    /\ err = NoError
    /\ curRootHash = ZeroHash
    /\ lastAttempt = FALSE
    /\ head = ZeroHash
    /\ tpc = "check"
    /\ rpc = "running"
    /\ spc = "idle"
    /\ setRoleArg = "none"
    /\ now = 1
    /\ destRoot = ZeroHash
    /\ chans = [c \in ChanIds |-> "unmade"]
    /\ execRet = NoCall
    /\ inflightPushes = 0
    /\ cancelCalled = FALSE
    /\ waiter = NoWaiter
    /\ pushedSinceFastFail = FALSE
    /\ shutdownOpen = {}
    /\ epochHeads = {ZeroHash}
    /\ waitFRet = "none"
    /\ statusRet = <<>>
    /\ waitNotify = "nil"
    /\ setWaitNotifyRet = <<>>
    /\ prevExec = <<>>
    /\ iter = NoIter
    /\ calls = 0

Init == InitCommitHook /\ NewDoltDatabaseProvider

\* ---- session threads ----

\* lines 463-468 without the test of fastFailReplicationWait
waitKindNoBreaker(caught) == IF caught THEN "nil" ELSE "block"

\* Execute, lines 462-468: no waitF when caught up, the failing one when the
\* circuit breaker is open, else one that blocks on a channel
waitKind(caught) ==
    IF caught THEN "nil"
    ELSE IF fastFailReplicationWait THEN "fastfail"
    ELSE "block"

\* Execute, lines 455-483: the role is primary
\* the zero time stored for a new head
headIncomingTimeZero == ZeroTime

\* line 457: the time a new head came in
headIncomingTime == now

\* a channel made for every caller
needsChannelAlways(chs) == TRUE

\* line 469: a channel is made when the slice has none
needsChannel(chs) == Len(chs) = 0

ExecutePrimary(root) ==
    LET changed == root # nextHead
        kind == waitKind(CaughtUp(role, root, lastPushedHead))
        make == kind = "block" /\ needsChannel(successChs)
        successCh == IF make THEN FreshCh ELSE successChs[1]
        noted == IF changed THEN NoteHead(waiter, root, lastPushedHead) ELSE waiter
    IN  /\ make => FreshCh # 0
        /\ nextHeadIncomingTime' = IF changed THEN headIncomingTime ELSE nextHeadIncomingTime
        /\ nextHead' = root
        /\ nextPushAttempt' = IF changed THEN ZeroTime ELSE nextPushAttempt
        /\ wpc' = IF changed THEN Signal(wpc) ELSE wpc
        /\ successChs' = IF make THEN Append(successChs, successCh) ELSE successChs
        /\ chans' = IF make THEN [chans EXCEPT ![successCh] = "open"] ELSE chans
        /\ execRet' = CASE kind = "nil" -> WaitNil
                        [] kind = "fastfail" -> WaitFastFail
                        [] OTHER -> WaitOn(successCh)
        /\ waiter' = IF kind = "block"
                     THEN [ch |-> successCh, heads |-> {root}, sat |-> FALSE]
                     ELSE noted
        /\ epochHeads' = epochHeads \cup {root}
        /\ prevExec' = <<[root |-> root, ret |-> execRet',
                          pushes |-> IF prevExec # <<>> /\ prevExec[1].root = root
                                     THEN prevExec[1].pushes ELSE 0]>>

\* a role check that lets every role through
ExecuteSkipsRoleCheck(root) == ExecutePrimary(root)

\* Execute, lines 451-454: the role is not primary
ExecuteNotPrimary(root) ==
    /\ execRet' = WaitNil
    /\ prevExec' = <<>>
    /\ UNCHANGED <<nextHead, nextHeadIncomingTime, nextPushAttempt, wpc, successChs,
                   chans, waiter, epochHeads>>

\* Execute, after cs.Root returned root without error
Execute(root) ==
    /\ calls < MaxCalls
    /\ calls' = calls + 1
    /\ mu = "none"
    /\ IF role # RolePrimary THEN ExecuteNotPrimary(root) ELSE ExecutePrimary(root)
    /\ waitFRet' = "none"
    /\ UNCHANGED <<role, lastPushedHead, lastSuccess, currentError, cancelReplicate,
                   fastFailReplicationWait, destDB, shutdown, mu, shouldHeartbeat,
                   localVars, threadVars, now, destRoot, inflightPushes, cancelCalled,
                   pushedSinceFastFail, shutdownOpen, statusRet, waitNotify,
                   setWaitNotifyRet, provVars, iter>>

\* the waitF of lines 473-480, called by the session thread: <-successCh is ready
waitFSuccess ==
    /\ execRet[1] = "wait"
    /\ waitFRet = "none"
    /\ chans[execRet[2]] = "closed"
    /\ waitFRet' = "nil"
    /\ UNCHANGED <<calls, hookVars, shutdown, mu, wpc, shouldHeartbeat, localVars,
                   threadVars, now, destRoot, chans, execRet, inflightPushes,
                   cancelCalled, waiter, pushedSinceFastFail, shutdownOpen, epochHeads,
                   statusRet, waitNotify, setWaitNotifyRet, prevExec, provVars, iter>>

\* a waitF that on cancellation takes its channel out of successChs
waitFCtxDoneForgets ==
    /\ calls < MaxCalls
    /\ calls' = calls + 1
    /\ execRet[1] = "wait"
    /\ waitFRet = "none"
    /\ waitFRet' = "context canceled"
    /\ successChs' = SelectSeq(successChs, LAMBDA c : c # execRet[2])
    /\ UNCHANGED <<role, headVars, currentError, cancelReplicate,
                   fastFailReplicationWait, destDB, shutdown, mu, wpc, shouldHeartbeat,
                   localVars, threadVars, now, destRoot, chans, execRet, inflightPushes,
                   cancelCalled, waiter, pushedSinceFastFail, shutdownOpen, epochHeads,
                   statusRet, waitNotify, setWaitNotifyRet, prevExec, provVars, iter>>

\* the waitF of lines 473-480: the caller cancels its context and <-ctx.Done() is
\* taken; the select may take it also when the channel is closed
waitFCtxDone ==
    /\ calls < MaxCalls
    /\ calls' = calls + 1
    /\ execRet[1] = "wait"
    /\ waitFRet = "none"
    /\ waitFRet' = "context canceled"
    /\ UNCHANGED <<hookVars, shutdown, mu, wpc, shouldHeartbeat, localVars,
                   threadVars, now, destRoot, chans, execRet, inflightPushes,
                   cancelCalled, waiter, pushedSinceFastFail, shutdownOpen, epochHeads,
                   statusRet, waitNotify, setWaitNotifyRet, prevExec, provVars, iter>>

\* the lag measured from the time the head came in
statusOfSinceIncoming ==
    [replicationLag |->
        IF role = RolePrimary
        THEN IF lastPushedHead # ZeroHash
             THEN IF nextHead # lastPushedHead
                  THEN <<now - nextHeadIncomingTime>>
                  ELSE <<0>>
             ELSE <<>>
        ELSE <<>>,
     lastUpdate |-> IF lastSuccess # ZeroTime THEN <<lastSuccess>> ELSE <<>>,
     currentErr |-> currentError]

\* status, lines 338-363: the three results; a nil pointer is the empty sequence
statusOf ==
    [replicationLag |->
        IF role = RolePrimary
        THEN IF lastPushedHead # ZeroHash
             THEN IF nextHead # lastPushedHead
                  THEN <<now - lastSuccess>>
                  ELSE <<0>>
             ELSE <<>>
        ELSE <<>>,
     lastUpdate |-> IF lastSuccess # ZeroTime THEN <<lastSuccess>> ELSE <<>>,
     currentErr |-> currentError]

\* status, lines 335-364
status ==
    /\ calls < MaxCalls
    /\ calls' = calls + 1
    /\ mu = "none"
    /\ statusRet' = <<statusOf>>
    /\ UNCHANGED <<hookVars, shutdown, mu, wpc, shouldHeartbeat, localVars,
                   threadVars, now, destRoot, chans, execRet, inflightPushes,
                   cancelCalled, waiter, pushedSinceFastFail, shutdownOpen, epochHeads,
                   waitFRet, waitNotify, setWaitNotifyRet, prevExec, provVars, iter>>

\* the callbacks handed to setWaitNotify
Callbacks == {"f", "g"}

\* setWaitNotify without the test of the slot
setWaitNotifyOverwrites(f) ==
    /\ calls < MaxCalls
    /\ calls' = calls + 1
    /\ mu = "none"
    /\ waitNotify' = f
    /\ setWaitNotifyRet' = <<[ok |-> TRUE, called |-> IF f # "nil" THEN 1 ELSE 0]>>
    /\ UNCHANGED <<hookVars, shutdown, mu, wpc, shouldHeartbeat, localVars,
                   threadVars, now, destRoot, chans, execRet, inflightPushes,
                   cancelCalled, waiter, pushedSinceFastFail, shutdownOpen, epochHeads,
                   waitFRet, statusRet, prevExec, provVars, iter>>

\* setWaitNotify, lines 422-433
setWaitNotify(f) ==
    /\ calls < MaxCalls
    /\ calls' = calls + 1
    /\ mu = "none"
    /\ IF f # "nil"
       THEN IF waitNotify # "nil"
            THEN /\ setWaitNotifyRet' = <<[ok |-> FALSE, called |-> 0]>>
                 /\ waitNotify' = waitNotify
            ELSE /\ setWaitNotifyRet' = <<[ok |-> TRUE, called |-> 1]>>
                 /\ waitNotify' = f
       ELSE /\ setWaitNotifyRet' = <<[ok |-> TRUE, called |-> 0]>>
            /\ waitNotify' = f
    /\ UNCHANGED <<hookVars, shutdown, mu, wpc, shouldHeartbeat, localVars,
                   threadVars, now, destRoot, chans, execRet, inflightPushes,
                   cancelCalled, waiter, pushedSinceFastFail, shutdownOpen, epochHeads,
                   waitFRet, statusRet, prevExec, provVars, iter>>

NotifyWaitFailed ==
    /\ calls < MaxCalls
    /\ calls' = calls + 1
    /\ mu = "none"
    /\ fastFailReplicationWait' = TRUE
    /\ pushedSinceFastFail' = FALSE
    /\ prevExec' = <<>>
    /\ UNCHANGED <<role, headVars, currentError, cancelReplicate, successChs, destDB,
                   shutdown, mu, wpc, shouldHeartbeat, localVars, threadVars, now,
                   destRoot, chans, execRet, inflightPushes, cancelCalled, waiter,
                   shutdownOpen, epochHeads, waitFRet, statusRet, waitNotify,
                   setWaitNotifyRet, provVars, iter>>

databaseWasDropped ==
    /\ calls < MaxCalls
    /\ calls' = calls + 1
    /\ ~shutdown
    /\ shutdown' = TRUE
    /\ wpc' = Signal(wpc)
    /\ shutdownOpen' = shutdownOpen \cup OpenChans
    /\ UNCHANGED <<hookVars, mu, shouldHeartbeat, localVars, threadVars, now,
                   destRoot, chans, execRet, inflightPushes, cancelCalled, waiter,
                   pushedSinceFastFail, epochHeads, waitFRet, statusRet, waitNotify,
                   setWaitNotifyRet, prevExec, provVars, iter>>

\* the success recorded in every role
recordSuccessfulRemoteSrvCommitAnyRole ==
    /\ calls < MaxCalls
    /\ calls' = calls + 1
    /\ mu = "none"
    /\ lastSuccess' = now
    /\ currentError' = NoError
    /\ UNCHANGED <<role, nextHead, lastPushedHead, nextPushAttempt, nextHeadIncomingTime,
                   cancelReplicate, successChs, fastFailReplicationWait, destDB,
                   shutdown, mu, wpc, shouldHeartbeat, localVars, threadVars, now,
                   destRoot, chans, obsVars, provVars>>

\* recordSuccessfulRemoteSrvCommit, lines 390-398: lock; return unless the role is
\* standby; lastSuccess = time.Now(), currentError = nil
recordSuccessfulRemoteSrvCommit ==
    /\ calls < MaxCalls
    /\ calls' = calls + 1
    /\ mu = "none"
    /\ lastSuccess' = IF role = RoleStandby THEN now ELSE lastSuccess
    /\ currentError' = IF role = RoleStandby THEN NoError ELSE currentError
    /\ UNCHANGED <<role, nextHead, lastPushedHead, nextPushAttempt, nextHeadIncomingTime,
                   cancelReplicate, successChs, fastFailReplicationWait, destDB,
                   shutdown, mu, wpc, shouldHeartbeat, localVars, threadVars, now,
                   destRoot, chans, obsVars, provVars>>

\* ---- the controller thread: setRole ----

\* lines 401-415: lock, reset, store the role, cancel the attempt in flight
setRole(r) ==
    /\ calls < MaxCalls
    /\ calls' = calls + 1
    /\ spc = "idle"
    /\ mu = "none"
    /\ mu' = "setRole"
    /\ currentError' = NoError
    /\ nextHead' = ZeroHash
    /\ lastPushedHead' = ZeroHash
    /\ lastSuccess' = ZeroTime
    /\ nextPushAttempt' = ZeroTime
    /\ role' = r
    /\ setRoleArg' = r
    /\ epochHeads' = {ZeroHash}
    /\ prevExec' = <<>>
    /\ cancelCalled' = (cancelCalled \/ cancelReplicate)
    /\ cancelReplicate' = FALSE
    /\ spc' = "broken"
    /\ UNCHANGED <<nextHeadIncomingTime, successChs, fastFailReplicationWait, destDB,
                   shutdown, wpc, shouldHeartbeat, localVars, tpc, rpc, now, destRoot,
                   chans, execRet, inflightPushes, waiter, pushedSinceFastFail,
                   shutdownOpen, waitFRet, statusRet, waitNotify, setWaitNotifyRet,
                   provVars, iter>>

\* lines 416-418
setRoleBroken ==
    /\ spc = "broken"
    /\ currentError' = IF role = RoleDetectedBrokenConfig
                       THEN errDetectedBrokenConfigStr ELSE currentError
    /\ spc' = "signal"
    /\ UNCHANGED <<calls, role, headVars, cancelReplicate, successChs,
                   fastFailReplicationWait, destDB, shutdown, mu, wpc, shouldHeartbeat,
                   localVars, tpc, rpc, setRoleArg, now, destRoot, chans, obsVars,
                   provVars>>

\* lines 419-420: signal, unlock, return
setRoleReturn ==
    /\ spc = "signal"
    /\ wpc' = Signal(wpc)
    /\ mu' = "none"
    /\ spc' = "idle"
    /\ UNCHANGED <<calls, hookVars, shutdown, shouldHeartbeat, localVars, tpc, rpc,
                   setRoleArg, now, destRoot, chans, obsVars, provVars>>

\* ---- run, tick, and the world ----

\* the context of the background thread is cancelled
ctxCancel ==
    /\ calls < MaxCalls
    /\ calls' = calls + 1
    /\ rpc = "running"
    /\ rpc' = "signal"
    /\ shutdownOpen' = shutdownOpen \cup OpenChans
    /\ UNCHANGED <<hookVars, shutdown, mu, wpc, shouldHeartbeat, localVars, tpc,
                   spc, setRoleArg, now, destRoot, chans, execRet, inflightPushes,
                   cancelCalled, waiter, pushedSinceFastFail, epochHeads, waitFRet,
                   statusRet, waitNotify, setWaitNotifyRet, prevExec, provVars, iter>>

\* run, lines 117-120: after <-ctx.Done() it signals and waits for the two goroutines
run ==
    /\ rpc = "signal"
    /\ wpc' = Signal(wpc)
    /\ rpc' = "wgwait"
    /\ UNCHANGED <<calls, hookVars, shutdown, mu, shouldHeartbeat, localVars, tpc, spc,
                   setRoleArg, now, destRoot, chans, obsVars, provVars>>

\* tick, line 375: the loop condition
tickCheck ==
    /\ tpc = "check"
    /\ tpc' = IF shutdown THEN "done" ELSE "select"
    /\ UNCHANGED <<calls, hookVars, shutdown, mu, wpc, shouldHeartbeat, localVars, rpc,
                   spc, setRoleArg, now, destRoot, chans, obsVars, provVars>>

\* tick, lines 376-378: the select takes <-ctx.Done()
tickDone ==
    /\ tpc = "select"
    /\ ctxDone
    /\ tpc' = "done"
    /\ UNCHANGED <<calls, hookVars, shutdown, mu, wpc, shouldHeartbeat, localVars, rpc,
                   spc, setRoleArg, now, destRoot, chans, obsVars, provVars>>

\* tick, lines 379-380: the select takes <-ticker.C
tick ==
    /\ tpc = "select"
    /\ tpc' = "check"
    /\ wpc' = Signal(wpc)
    /\ UNCHANGED <<calls, hookVars, shutdown, mu, shouldHeartbeat, localVars, rpc, spc,
                   setRoleArg, now, destRoot, chans, obsVars, provVars>>

\* a time stamp one step further in the past; the zero time.Time stays zero
Slide(t) == IF t > 1 THEN t - 1 ELSE t

\* time.Now() advances. The code only compares time stamps with time.Now(), so once
\* the clock is at MaxTime it stays there and the stored time stamps move back.
timePasses ==
    /\ IF now < MaxTime
       THEN /\ now' = now + 1
            /\ UNCHANGED <<nextPushAttempt, nextHeadIncomingTime, lastSuccess,
                           incomingTime>>
       ELSE /\ now' = now
            /\ nextPushAttempt' = Slide(nextPushAttempt)
            /\ nextHeadIncomingTime' = Slide(nextHeadIncomingTime)
            /\ lastSuccess' = Slide(lastSuccess)
            /\ incomingTime' = Slide(incomingTime)
    /\ UNCHANGED <<calls, role, nextHead, lastPushedHead, currentError, cancelReplicate,
                   successChs, fastFailReplicationWait, destDB, shutdown, mu, wpc,
                   shouldHeartbeat, toPush, capturedChs, err, curRootHash, lastAttempt,
                   head, threadVars, destRoot, chans, obsVars, provVars>>

\* ---- the replicate goroutine ----

\* lines 127-129
replicateStart ==
    /\ wpc = "start"
    /\ mu = "none"
    /\ mu' = "worker"
    /\ shouldHeartbeat' = FALSE
    /\ wpc' = "check"
    /\ UNCHANGED <<calls, hookVars, shutdown, localVars, threadVars, now, destRoot,
                   chans, obsVars, provVars>>

\* lines 130 and 133: the loop condition and ctx.Err(), read with the mutex held
replicateCheck ==
    /\ wpc = "check"
    /\ IF shutdown
       THEN wpc' = "done" /\ mu' = "none"
       ELSE wpc' = (IF ctxDone THEN "cancelled" ELSE "body") /\ mu' = mu
    /\ UNCHANGED <<calls, hookVars, shutdown, shouldHeartbeat, localVars, threadVars,
                   now, destRoot, chans, obsVars, provVars>>

\* the attempt started in a goroutine of its own: replicate goes on with its loop
attemptReplicateDetached(last) ==
    /\ toPush' = nextHead
    /\ incomingTime' = nextHeadIncomingTime
    /\ cancelReplicate' = TRUE
    /\ cancelCalled' = FALSE
    /\ capturedChs' = successChs
    /\ successChs' = <<>>
    /\ lastAttempt' = last
    /\ err' = NoError
    /\ mu' = mu
    /\ wpc' = "check"
    /\ inflightPushes' = inflightPushes + 1
    /\ iter' = [kind |-> "attempt", notified |-> <<>>]
    /\ UNCHANGED <<calls, role, headVars, currentError, fastFailReplicationWait, destDB,
                   shutdown, shouldHeartbeat, curRootHash, head, threadVars, now,
                   destRoot, chans, execRet, waiter, pushedSinceFastFail, shutdownOpen,
                   epochHeads, waitFRet, statusRet, waitNotify, setWaitNotifyRet,
                   prevExec, provVars>>

\* attemptReplicate, lines 248-266: capture, make the context, steal the channels, unlock
attemptReplicate(last) ==
    /\ toPush' = nextHead
    /\ incomingTime' = nextHeadIncomingTime
    /\ cancelReplicate' = TRUE
    /\ cancelCalled' = FALSE
    /\ capturedChs' = successChs
    /\ successChs' = <<>>
    /\ lastAttempt' = last
    /\ err' = NoError
    /\ mu' = "none"
    /\ wpc' = IF destDB THEN "push" ELSE "destDBF"
    /\ inflightPushes' = inflightPushes + 1
    /\ iter' = [kind |-> "attempt", notified |-> <<>>]
    /\ UNCHANGED <<calls, role, headVars, currentError, fastFailReplicationWait, destDB,
                   shutdown, shouldHeartbeat, curRootHash, head, threadVars, now,
                   destRoot, chans, execRet, waiter, pushedSinceFastFail, shutdownOpen,
                   epochHeads, waitFRet, statusRet, waitNotify, setWaitNotifyRet,
                   prevExec, provVars>>

\* lines 133-141, shouldReplicate() false: return
replicateCtxExit ==
    /\ wpc = "cancelled"
    /\ ~shouldReplicate
    /\ wpc' = "done"
    /\ mu' = "none"
    /\ UNCHANGED <<calls, hookVars, shutdown, shouldHeartbeat, localVars, threadVars,
                   now, destRoot, chans, obsVars, provVars>>

\* the last attempt made under the cancelled context of the goroutine
replicateCtxLastAttemptCtx ==
    /\ wpc = "cancelled"
    /\ shouldReplicate
    /\ attemptReplicate(FALSE)

\* lines 133-141, shouldReplicate() true: a last attempt under context.Background()
replicateCtxLastAttempt ==
    /\ wpc = "cancelled"
    /\ shouldReplicate
    /\ attemptReplicate(TRUE)

\* lines 142-157: cs.Root of the source database; r = ZeroHash is the error case
replicateInit(r) ==
    /\ wpc = "body"
    /\ primaryNeedsInit
    /\ nextHead' = r
    /\ nextHeadIncomingTime' = now
    /\ epochHeads' = epochHeads \cup {r}
    /\ iter' = [kind |-> "init", notified |-> <<>>]
    /\ wpc' = "check"
    /\ UNCHANGED <<calls, role, lastPushedHead, nextPushAttempt, lastSuccess,
                   currentError, cancelReplicate, successChs, fastFailReplicationWait,
                   destDB, shutdown, mu, shouldHeartbeat, localVars, threadVars, now,
                   destRoot, chans, execRet, inflightPushes, cancelCalled, waiter,
                   pushedSinceFastFail, shutdownOpen, waitFRet, statusRet, waitNotify,
                   setWaitNotifyRet, prevExec, provVars>>

\* lines 158-160
replicateAttempt ==
    /\ wpc = "body"
    /\ ~primaryNeedsInit
    /\ shouldReplicate
    /\ attemptReplicate(FALSE)

\* lines 174-175 and 217-227: the idle iteration calls attemptHeartbeat and the call
\* gets as far as the Commit
heartbeatIssued ==
    /\ shouldHeartbeat
    /\ role = RolePrimary
    /\ lastPushedHead # ZeroHash
    /\ destDB

\* an idle iteration that calls nothing
idleNotifyNever == <<>>

\* lines 163-165: the callbacks an idle iteration calls
idleNotify == IF waitNotify # "nil" THEN <<waitNotify>> ELSE <<>>

\* lines 161-179, with attemptHeartbeat up to its Unlock (lines 217-235)
replicateIdle ==
    /\ wpc = "body"
    /\ ~primaryNeedsInit
    /\ ~shouldReplicate
    /\ LET caughtUp == isCaughtUp
           closeThem == Len(successChs) # 0 /\ caughtUp
           beat == heartbeatIssued
       IN  /\ successChs' = IF closeThem THEN <<>> ELSE successChs
           /\ chans' = IF closeThem THEN CloseAll(chans, successChs) ELSE chans
           /\ fastFailReplicationWait' = IF closeThem THEN FALSE ELSE fastFailReplicationWait
           /\ shouldHeartbeat' = (shouldHeartbeat \/ caughtUp)
           /\ IF beat
              THEN /\ head' = lastPushedHead
                   /\ cancelReplicate' = TRUE
                   /\ wpc' = "heartbeat"
              ELSE /\ head' = head
                   /\ cancelReplicate' = cancelReplicate
                   /\ wpc' = "wait"
           /\ cancelCalled' = FALSE
           /\ mu' = "none"
    /\ iter' = [kind |-> "idle", notified |-> idleNotify]
    /\ UNCHANGED <<calls, role, headVars, currentError, destDB, shutdown, toPush,
                   incomingTime, capturedChs, err, curRootHash, lastAttempt, threadVars,
                   now, destRoot, execRet, inflightPushes, waiter, pushedSinceFastFail,
                   shutdownOpen, epochHeads, waitFRet, statusRet, waitNotify,
                   setWaitNotifyRet, prevExec, provVars>>

\* a heartbeat that counts as a success of replication
attemptHeartbeatRecords(ok) ==
    /\ wpc = "heartbeat"
    /\ ok => ~attemptCtxDone
    /\ mu = "none"
    /\ destRoot' = IF ok /\ destRoot = head THEN head ELSE destRoot
    /\ lastSuccess' = IF ok THEN now ELSE lastSuccess
    /\ cancelReplicate' = FALSE
    /\ cancelCalled' = FALSE
    /\ head' = ZeroHash
    /\ wpc' = "wait"
    /\ UNCHANGED <<calls, role, nextHead, lastPushedHead, nextPushAttempt,
                   nextHeadIncomingTime, currentError, successChs,
                   fastFailReplicationWait, destDB, shutdown, mu, shouldHeartbeat, toPush,
                   incomingTime, capturedChs, err, curRootHash, lastAttempt, threadVars,
                   now, chans, execRet, inflightPushes, waiter, pushedSinceFastFail,
                   shutdownOpen, epochHeads, waitFRet, statusRet, waitNotify,
                   setWaitNotifyRet, prevExec, iter, provVars>>

\* attemptHeartbeat, lines 236-240 and 229-234: cs.Commit(ctx, head, head), whose
\* result is dropped, Lock, the deferred cancel; then cond.Wait() at line 179
attemptHeartbeat(ok) ==
    /\ wpc = "heartbeat"
    /\ ok => ~attemptCtxDone
    /\ mu = "none"
    /\ destRoot' = IF ok /\ destRoot = head THEN head ELSE destRoot
    /\ cancelReplicate' = FALSE
    /\ cancelCalled' = FALSE
    /\ head' = ZeroHash
    /\ wpc' = "wait"
    /\ UNCHANGED <<calls, role, headVars, currentError, successChs,
                   fastFailReplicationWait, destDB, shutdown, mu, shouldHeartbeat, toPush,
                   incomingTime, capturedChs, err, curRootHash, lastAttempt, threadVars,
                   now, chans, execRet, inflightPushes, waiter, pushedSinceFastFail,
                   shutdownOpen, epochHeads, waitFRet, statusRet, waitNotify,
                   setWaitNotifyRet, prevExec, provVars, iter>>

\* cond.Wait() returns once signalled and the mutex is free
replicateWake ==
    /\ wpc = "woken"
    /\ mu = "none"
    /\ mu' = "worker"
    /\ wpc' = "check"
    /\ UNCHANGED <<calls, hookVars, shutdown, shouldHeartbeat, localVars, threadVars,
                   now, destRoot, chans, obsVars, provVars>>

\* ---- attemptReplicate, with the mutex released ----

\* a return from the attempt that goes to wait on the condition variable
attemptReturnWaits ==
    /\ inflightPushes' = inflightPushes - 1
    /\ cancelReplicate' = FALSE
    /\ cancelCalled' = FALSE
    /\ toPush' = ZeroHash
    /\ incomingTime' = ZeroTime
    /\ capturedChs' = <<>>
    /\ err' = NoError
    /\ curRootHash' = ZeroHash
    /\ lastAttempt' = FALSE
    /\ IF lastAttempt
       THEN wpc' = "done" /\ mu' = "none" /\ shouldHeartbeat' = shouldHeartbeat
       ELSE wpc' = "wait" /\ mu' = "none" /\ shouldHeartbeat' = FALSE

\* attemptReplicate returns to replicate: line 160 and the loop, or line 140 after the last attempt
attemptReturn ==
    /\ inflightPushes' = inflightPushes - 1
    /\ cancelReplicate' = FALSE
    /\ cancelCalled' = FALSE
    /\ toPush' = ZeroHash
    /\ incomingTime' = ZeroTime
    /\ capturedChs' = <<>>
    /\ err' = NoError
    /\ curRootHash' = ZeroHash
    /\ lastAttempt' = FALSE
    /\ IF lastAttempt
       THEN wpc' = "done" /\ mu' = "none" /\ shouldHeartbeat' = shouldHeartbeat
       ELSE wpc' = "check" /\ mu' = "worker" /\ shouldHeartbeat' = FALSE

\* a failure of h.destDBF that is not reported
attemptDestDBFErrorSilent ==
    /\ wpc = "destDBF"
    /\ currentError' = currentError
    /\ wpc' = "destDBFLock"
    /\ UNCHANGED <<calls, role, headVars, cancelReplicate, successChs,
                   fastFailReplicationWait, destDB, shutdown, mu, shouldHeartbeat,
                   localVars, threadVars, now, destRoot, chans, obsVars, provVars>>

\* lines 271-275: h.destDBF fails; currentError is written before h.mu.Lock()
attemptDestDBFError ==
    /\ wpc = "destDBF"
    /\ currentError' = ErrFetchDestDB(errRemote)
    /\ wpc' = "destDBFLock"
    /\ UNCHANGED <<calls, role, headVars, cancelReplicate, successChs,
                   fastFailReplicationWait, destDB, shutdown, mu, shouldHeartbeat,
                   localVars, threadVars, now, destRoot, chans, obsVars, provVars>>

\* lines 276-282 and the deferred restore of the channels
attemptDestDBFReturn ==
    /\ wpc = "destDBFLock"
    /\ mu = "none"
    /\ nextPushAttempt' = IF toPush = nextHead THEN now + 1 ELSE nextPushAttempt
    /\ successChs' = successChs \o capturedChs
    /\ prevExec' = <<>>
    /\ attemptReturn
    /\ UNCHANGED <<calls, role, nextHead, lastPushedHead, nextHeadIncomingTime,
                   lastSuccess, currentError, fastFailReplicationWait, destDB, shutdown,
                   head, threadVars, now, destRoot, chans, execRet, waiter,
                   pushedSinceFastFail, shutdownOpen, epochHeads, waitFRet, statusRet,
                   waitNotify, setWaitNotifyRet, provVars, iter>>

\* lines 271, 284: h.destDBF returns a database
attemptDestDBFOk ==
    /\ wpc = "destDBF"
    /\ ~attemptCtxDone
    /\ wpc' = "destDBFStore"
    /\ UNCHANGED <<calls, hookVars, shutdown, mu, shouldHeartbeat, localVars, threadVars,
                   now, destRoot, chans, obsVars, provVars>>

\* the database of this attempt is kept in the local variable only
attemptStoreDestDBLocal ==
    /\ wpc = "destDBFStore"
    /\ mu = "none"
    /\ destDB' = destDB
    /\ wpc' = "push"
    /\ UNCHANGED <<calls, role, headVars, currentError, cancelReplicate, successChs,
                   fastFailReplicationWait, shutdown, mu, shouldHeartbeat, localVars,
                   threadVars, now, destRoot, chans, obsVars, provVars>>

\* lines 285-287
attemptStoreDestDB ==
    /\ wpc = "destDBFStore"
    /\ mu = "none"
    /\ destDB' = TRUE
    /\ wpc' = "push"
    /\ UNCHANGED <<calls, role, headVars, currentError, cancelReplicate, successChs,
                   fastFailReplicationWait, shutdown, mu, shouldHeartbeat, localVars,
                   threadVars, now, destRoot, chans, obsVars, provVars>>

\* lines 290-306: PullChunks, then Rebase, Root and Commit(toPush, curRootHash) on the
\* destination. "ok": all four succeed. "moved": Commit returns ok=false, which needs
\* another writer to have set the destination root to some h after Root read it
\* (a call from outside the hook).
\* "error": one of the calls fails.
attemptPush(outcome, h) ==
    /\ wpc = "push"
    /\ outcome # "error" => ~attemptCtxDone
    /\ outcome = "moved" => h # destRoot /\ calls < MaxCalls
    /\ calls' = IF outcome = "moved" THEN calls + 1 ELSE calls
    /\ outcome # "moved" => h = destRoot
    /\ curRootHash' = IF outcome = "error" THEN curRootHash ELSE destRoot
    /\ err' = CASE outcome = "ok" -> NoError
               [] outcome = "moved" -> errDestDBRootHashMoved
               [] OTHER -> errRemote
    /\ destRoot' = CASE outcome = "ok" -> toPush
                    [] outcome = "moved" -> h
                    [] OTHER -> destRoot
    /\ wpc' = "finish"
    /\ UNCHANGED <<hookVars, shutdown, mu, shouldHeartbeat, toPush, incomingTime,
                   capturedChs, lastAttempt, head, threadVars, now, chans, obsVars,
                   provVars>>

\* time.Now() stored in the place of the incoming time of the head
finishLastSuccessNow == now

\* line 314: the time stored in lastSuccess by a successful attempt
finishLastSuccess == incomingTime

\* the backoff set whether or not a newer head came in
finishBackoffAlways == now + 1

\* lines 327-330: nextPushAttempt after a failed attempt
finishBackoff == IF toPush = nextHead THEN now + 1 ELSE nextPushAttempt

\* lines 308-333 and the deferred functions of lines 253-265
attemptFinish ==
    /\ wpc = "finish"
    /\ mu = "none"
    /\ LET primary == role = RolePrimary
           success == primary /\ err = NoError
           failure == primary /\ err # NoError
       IN  /\ currentError' = IF success THEN NoError
                              ELSE IF failure THEN ErrCommitChunks(err)
                              ELSE currentError
           /\ lastPushedHead' = IF success THEN toPush ELSE lastPushedHead
           /\ lastSuccess' = IF success THEN finishLastSuccess ELSE lastSuccess
           /\ nextPushAttempt' = IF success THEN ZeroTime
                                 ELSE IF failure THEN finishBackoff
                                 ELSE nextPushAttempt
           /\ chans' = IF success THEN CloseAll(chans, capturedChs) ELSE chans
           /\ successChs' = IF success THEN successChs ELSE successChs \o capturedChs
           /\ waiter' = IF success THEN NotePush(waiter, toPush) ELSE waiter
           /\ pushedSinceFastFail' = (pushedSinceFastFail \/ (success /\ fastFailReplicationWait))
           /\ prevExec' = IF ~success THEN <<>>
                          ELSE IF prevExec # <<>> /\ prevExec[1].root = toPush
                          THEN <<[prevExec[1] EXCEPT !.pushes = @ + 1]>>
                          ELSE prevExec
    /\ attemptReturn
    /\ UNCHANGED <<calls, role, nextHead, nextHeadIncomingTime, fastFailReplicationWait,
                   destDB, shutdown, head, threadVars, now, destRoot, execRet,
                   shutdownOpen, epochHeads, waitFRet, statusRet, waitNotify,
                   setWaitNotifyRet, provVars, iter>>

\* ---- the specification ----

Next ==
    \/ \E root \in Heads : Execute(root)
    \/ waitFSuccess
    \/ waitFCtxDone
    \/ status
    \/ \E f \in Callbacks \cup {"nil"} : setWaitNotify(f)
    \/ NotifyWaitFailed
    \/ recordSuccessfulRemoteSrvCommit
    \/ databaseWasDropped
    \/ \E r \in Roles : setRole(r)
    \/ setRoleBroken
    \/ setRoleReturn
    \/ ctxCancel
    \/ run
    \/ tickCheck
    \/ tickDone
    \/ tick
    \/ timePasses
    \/ replicateStart
    \/ replicateCheck
    \/ replicateCtxExit
    \/ replicateCtxLastAttempt
    \/ \E r \in Heads \cup {ZeroHash} : replicateInit(r)
    \/ replicateAttempt
    \/ replicateIdle
    \/ \E ok \in BOOLEAN : attemptHeartbeat(ok)
    \/ replicateWake
    \/ attemptDestDBFError
    \/ attemptDestDBFReturn
    \/ attemptDestDBFOk
    \/ attemptStoreDestDB
    \/ \E outcome \in {"ok", "moved", "error"}, h \in Heads \cup {ZeroHash} : attemptPush(outcome, h)
    \/ attemptFinish

Spec == Init /\ [][Next]_vars

TypeOK ==
    /\ role \in Roles
    /\ nextHead \in Heads \cup {ZeroHash}
    /\ lastPushedHead \in Heads \cup {ZeroHash}
    /\ nextPushAttempt \in 0..(MaxTime + 1)
    /\ mu \in {"none", "worker", "setRole"}
    /\ inflightPushes \in 0..2
    /\ setRoleArg \in Roles \cup {"none"}
    /\ now \in 1..MaxTime
    /\ calls \in 0..MaxCalls

\* ---- the hook while it stays primary and is not shut down ----

InitLive == Init /\ role = RolePrimary

\* the steps of the replicate goroutine that wait for no remote call
replicateStep ==
    \/ replicateStart
    \/ replicateCheck
    \/ replicateAttempt
    \/ replicateIdle
    \/ replicateWake
    \/ attemptDestDBFReturn
    \/ attemptStoreDestDB
    \/ attemptFinish

\* a remote call or the read of the local root returns, with whatever outcome
remoteReturns ==
    \/ \E r \in Heads \cup {ZeroHash} : replicateInit(r)
    \/ \E ok \in BOOLEAN : attemptHeartbeat(ok)
    \/ attemptDestDBFError
    \/ attemptDestDBFOk
    \/ \E outcome \in {"ok", "moved", "error"}, h \in Heads \cup {ZeroHash} : attemptPush(outcome, h)

\* the outcomes without an error
rootSucceeds == \E r \in Heads : replicateInit(r)
pushSucceeds == attemptPush("ok", destRoot)

NextLive ==
    \/ \E root \in Heads : Execute(root)
    \/ NotifyWaitFailed
    \/ tickCheck
    \/ tick
    \/ timePasses
    \/ replicateStep
    \/ remoteReturns

\* every goroutine keeps running, the ticker keeps firing, the clock keeps advancing,
\* and a remote call that is made again and again succeeds in the end
SpecLive ==
    /\ InitLive
    /\ [][NextLive]_vars
    /\ WF_vars(replicateStep)
    /\ WF_vars(remoteReturns)
    /\ WF_vars(tickCheck)
    /\ WF_vars(tick)
    /\ WF_vars(timePasses)
    /\ SF_vars(rootSucceeds)
    /\ SF_vars(attemptDestDBFOk)
    /\ SF_vars(pushSucceeds)

\* ---- the hook with every goroutine scheduled ----

\* the steps replicate takes once it has seen the context cancelled
replicateCtxStep ==
    \/ replicateCtxExit
    \/ replicateCtxLastAttempt

\* every goroutine that can take a step takes one in the end, every remote call
\* returns, the ticker fires, a select with <-ctx.Done() ready takes it in the end,
\* and setRole runs to its return
SpecFair ==
    /\ Init
    /\ [][Next]_vars
    /\ WF_vars(replicateStep)
    /\ WF_vars(replicateCtxStep)
    /\ WF_vars(remoteReturns)
    /\ WF_vars(run)
    /\ WF_vars(tickCheck)
    /\ WF_vars(tick)
    /\ SF_vars(tickDone)
    /\ WF_vars(setRoleBroken)
    /\ WF_vars(setRoleReturn)
    /\ WF_vars(timePasses)

\* ---- the database provider ----
\* Create and clone are given names without a revision. Read replication is not
\* active, so a lookup that finds no database does not clone one (lines 1007-1009).

commitHookVars == <<hookVars, shutdown, mu, wpc, shouldHeartbeat, localVars, threadVars,
                    now, destRoot, chans, obsVars, calls>>

\* the steps of s up to and with the step x
UpTo(s, x) == SubSeq(s, 1, CHOOSE i \in 1..Len(s) : s[i] = x)

\* a thread begins a call: its argument is stored and its records are reset
callBegins(t, pc, name) ==
    /\ pcalls < MaxProviderCalls
    /\ pcalls' = pcalls + 1
    /\ ppc[t] = "idle"
    /\ ppc' = [ppc EXCEPT ![t] = pc]
    /\ parg' = [parg EXCEPT ![t] = name]
    /\ ptrace' = [ptrace EXCEPT ![t] = <<>>]
    /\ pret' = [pret EXCEPT ![t] = NoRet]

\* a call returns r after the steps tr
callReturns(t, r, tr) ==
    /\ ppc' = [ppc EXCEPT ![t] = "idle"]
    /\ pret' = [pret EXCEPT ![t] = r]
    /\ ptrace' = [ptrace EXCEPT ![t] = tr]

\* SetIsStandby, lines 165-169
SetIsStandby(standby) ==
    /\ pcalls < MaxProviderCalls
    /\ pcalls' = pcalls + 1
    /\ pmu = 0
    /\ isStandby' = standby
    /\ UNCHANGED <<databases, dbLocations, dropHook, pmu, fs, ppc, parg, pcap, ptrace,
                   pret, commitHookVars>>

\* CreateCollatedDatabase is called, line 358
createCall(t, base) ==
    /\ callBegins(t, "createLock", <<base, "">>)
    /\ UNCHANGED <<databases, dbLocations, isStandby, dropHook, pmu, fs, pcap,
                   commitHookVars>>

\* CreateCollatedDatabase, lines 359-360: p.mu.Lock()
createLock(t) ==
    /\ ppc[t] = "createLock"
    /\ pmu = 0
    /\ pmu' = t
    /\ ppc' = [ppc EXCEPT ![t] = "create"]
    /\ UNCHANGED <<databases, dbLocations, isStandby, dropHook, fs, parg, pcap, ptrace,
                   pret, pcalls, commitHookVars>>

\* the steps of CreateCollatedDatabase that can fail, in their order, and the publication
CreateOrder == <<"MkDirs", "InitRepo", "NewDatabase", "InitDatabaseHook", "publish">>

\* a create that publishes the database although InitDatabaseHook failed
createPublishesAfterHook(failAt) == failAt \in {"none", "InitDatabaseHook"}

\* lines 437-445: the maps are written only when no step before failed
createPublishes(failAt) == failAt = "none"

\* CreateCollatedDatabase, lines 362-447 and the deferred Unlock; failAt is the step that
\* fails. InitRepo stands for lines 369-402, NewDatabase for lines 404-435.
createBody(t, failAt) ==
    /\ ppc[t] = "create"
    /\ failAt \in {"none", "MkDirs", "InitRepo", "NewDatabase", "InitDatabaseHook"}
    /\ LET base == parg[t][1]
           key == formatDbMapKeyName(parg[t])
       IN  IF fs[base] # "none"
           THEN /\ failAt = "none"
                /\ callReturns(t, Ret("create", IF fs[base] = "dir" THEN "ErrDatabaseExists"
                                                ELSE "Cannot create DB, file exists", "none"), <<>>)
                /\ UNCHANGED <<databases, dbLocations, fs>>
           ELSE IF failAt = "MkDirs"
           THEN /\ callReturns(t, Ret("create", "error", "none"), <<"MkDirs">>)
                /\ UNCHANGED <<databases, dbLocations, fs>>
           ELSE /\ fs' = [fs EXCEPT ![base] = "dir"]
                /\ IF createPublishes(failAt)
                   THEN /\ databases' = [databases EXCEPT ![key] = "Database"]
                        /\ dbLocations' = [dbLocations EXCEPT ![key[1]] = base]
                   ELSE UNCHANGED <<databases, dbLocations>>
                /\ IF failAt = "none"
                   THEN callReturns(t, Ret("create", "nil", "none"), CreateOrder)
                   ELSE callReturns(t, Ret("create", "error", "none"), UpTo(CreateOrder, failAt))
    /\ pmu' = 0
    /\ UNCHANGED <<isStandby, dropHook, parg, pcap, pcalls, commitHookVars>>

\* CloneDatabaseFromRemote, lines 510-518: p.mu.Lock() and the test of the directory
cloneBegin(t, base) ==
    /\ pcalls < MaxProviderCalls
    /\ pcalls' = pcalls + 1
    /\ ppc[t] = "idle"
    /\ pmu = 0
    /\ parg' = [parg EXCEPT ![t] = <<base, "">>]
    /\ ptrace' = [ptrace EXCEPT ![t] = <<>>]
    /\ IF fs[base] = "none"
       THEN /\ pmu' = t
            /\ ppc' = [ppc EXCEPT ![t] = "cloneRemote"]
            /\ pret' = [pret EXCEPT ![t] = NoRet]
       ELSE /\ pmu' = 0
            /\ ppc' = ppc
            /\ pret' = [pret EXCEPT ![t] =
                           Ret("clone", IF fs[base] = "dir" THEN "ErrDatabaseExists"
                                        ELSE "cannot create DB, file exists", "none")]
    /\ UNCHANGED <<databases, dbLocations, isStandby, dropHook, fs, pcap, commitHookVars>>

\* the calls of cloneDatabaseFromRemote to the remote, in their order
RemoteOrder == <<"GetRemoteDB", "EnvForClone", "CloneRemote">>

\* cloneDatabaseFromRemote, lines 546-564: the calls to the remote. GetRemoteDB stands
\* for lines 546-554; EnvForClone makes the directory, and may have made it (made)
\* when it fails; CloneRemote fills it.
cloneRemote(t, failAt, made) ==
    /\ ppc[t] = "cloneRemote"
    /\ failAt \in {"none", "GetRemoteDB", "EnvForClone", "CloneRemote"}
    /\ failAt = "GetRemoteDB" => ~made
    /\ failAt \in {"none", "CloneRemote"} => made
    /\ fs' = IF made THEN [fs EXCEPT ![parg[t][1]] = "dir"] ELSE fs
    /\ ppc' = [ppc EXCEPT ![t] = IF failAt = "none" THEN "cloneLocal" ELSE "cloneCleanup"]
    /\ ptrace' = [ptrace EXCEPT ![t] =
                     IF failAt = "none" THEN RemoteOrder ELSE UpTo(RemoteOrder, failAt)]
    /\ UNCHANGED <<databases, dbLocations, isStandby, dropHook, pmu, parg, pcap, pret,
                   pcalls, commitHookVars>>

\* cloneDatabaseFromRemote, lines 566-598: NewDatabase stands for lines 566-583; the
\* database is stored in p.databases, and p.dbLocations is not written
cloneLocal(t, failAt) ==
    /\ ppc[t] = "cloneLocal"
    /\ failAt \in {"none", "NewDatabase", "InitDatabaseHook"}
    /\ IF failAt = "none"
       THEN /\ databases' = [databases EXCEPT ![formatDbMapKeyName(parg[t])] = "Database"]
            /\ ppc' = [ppc EXCEPT ![t] = "cloneConfigure"]
            /\ ptrace' = [ptrace EXCEPT ![t] =
                             @ \o <<"NewDatabase", "InitDatabaseHook", "publish">>]
       ELSE /\ databases' = databases
            /\ ppc' = [ppc EXCEPT ![t] = "cloneCleanup"]
            /\ ptrace' = [ptrace EXCEPT ![t] =
                             @ \o UpTo(<<"NewDatabase", "InitDatabaseHook">>, failAt)]
    /\ UNCHANGED <<dbLocations, isStandby, dropHook, pmu, fs, parg, pcap, pret, pcalls,
                   commitHookVars>>

\* CloneDatabaseFromRemote, lines 520-531 and the deferred Unlock: the directory, if
\* there is one, is deleted, and the error returned
cloneCleanup(t, deleteOk) ==
    /\ ppc[t] = "cloneCleanup"
    /\ LET base == parg[t][1]
       IN  IF fs[base] = "none"
           THEN /\ deleteOk
                /\ fs' = fs
                /\ callReturns(t, Ret("clone", "error", "none"), ptrace[t])
           ELSE IF deleteOk
           THEN /\ fs' = [fs EXCEPT ![base] = "none"]
                /\ callReturns(t, Ret("clone", "error", "none"), ptrace[t] \o <<"Delete">>)
           ELSE /\ fs' = fs
                /\ callReturns(t, Ret("clone", "error: unable to clean up failed clone", "none"),
                               ptrace[t] \o <<"Delete">>)
    /\ pmu' = 0
    /\ UNCHANGED <<databases, dbLocations, isStandby, dropHook, parg, pcap, pcalls,
                   commitHookVars>>

\* CloneDatabaseFromRemote, line 534 and the deferred Unlock: the result of
\* ConfigureReplicationDatabaseHook (lines 455-501, with its calls to the remote) is the
\* result of the clone
cloneConfigure(t, ok) ==
    /\ ppc[t] = "cloneConfigure"
    /\ callReturns(t, Ret("clone", IF ok THEN "nil" ELSE "error", "none"),
                   ptrace[t] \o <<"ConfigureReplicationDatabaseHook">>)
    /\ pmu' = 0
    /\ UNCHANGED <<databases, dbLocations, isStandby, dropHook, fs, parg, pcap, pcalls,
                   commitHookVars>>

\* no key counts as one of a revision of the database
derivativeNone(k, dbKey) == FALSE

\* lines 676-684: the key k is one of a revision of the database stored under dbKey
derivative(k, dbKey) == k[2] # "" /\ ToLower(k[1]) = ToLower(dbKey[1])

\* lines 620-688: the steps of a drop in their order; DeleteFromSingletonCache stands for
\* lines 630-639, and the hook is called when it is set (lines 641-647)
dropSteps(hook) ==
    <<"Close", "DeleteFromSingletonCache">>
        \o (IF hook THEN <<"DropDatabaseHook">> ELSE <<>>)
        \o <<"Abs", "Delete", "remove", "invalidateDbStateInAllSessions">>

\* DropDatabase, lines 602-689; failAt is the call that fails
DropDatabase(t, name, failAt) ==
    /\ pcalls < MaxProviderCalls
    /\ pcalls' = pcalls + 1
    /\ ppc[t] = "idle"
    /\ parg' = [parg EXCEPT ![t] = name]
    /\ failAt \in {"none", "Close", "DeleteFromSingletonCache", "Abs", "Delete",
                   "invalidateDbStateInAllSessions"}
    /\ LET dbKey == formatDbMapKeyName(name)
           db == databases[dbKey]
           dbLoc == dbLocations[dbKey[1]]
           atRoot == dbLoc = RootLoc
           dir == IF atRoot THEN DoltDir ELSE dbLoc
           steps == dropSteps(dropHook)
           gone == [k \in Keys |-> IF k = dbKey \/ derivative(k, dbKey)
                                   THEN "none" ELSE databases[k]]
           return(e, tr) == /\ pret' = [pret EXCEPT ![t] = Ret("drop", e, "none")]
                            /\ ptrace' = [ptrace EXCEPT ![t] = tr]
                            /\ UNCHANGED <<databases, fs>>
       IN  IF name[2] # ""
           THEN \* lines 603-606, before the lock
                failAt = "none" /\ return("unable to drop revision database", <<>>)
           ELSE /\ pmu = 0
                /\ IF db # "Database"
                   THEN \* line 618: db.(Database) panics
                        failAt = "none" /\ return("panic", <<>>)
                   ELSE IF failAt = "Close"
                   THEN return("error", <<"Close">>)
                   ELSE IF dbLoc = "none"
                   THEN failAt = "none" /\ return("ErrDatabaseNotFound", <<"Close">>)
                   ELSE IF failAt \in {"DeleteFromSingletonCache", "Abs"}
                   THEN return("error", UpTo(steps, failAt))
                   ELSE IF fs[dir] = "none"
                   THEN failAt = "none" /\ return("ErrDatabaseNotFound", UpTo(steps, "Abs"))
                   ELSE IF ~atRoot /\ fs[dir] = "file"
                   THEN failAt = "none"
                        /\ return("exists but is not a directory", UpTo(steps, "Abs"))
                   ELSE IF failAt = "Delete"
                   THEN return("error", UpTo(steps, "Delete"))
                   ELSE /\ fs' = [fs EXCEPT ![dir] = "none"]
                        /\ databases' = gone
                        /\ ptrace' = [ptrace EXCEPT ![t] = steps]
                        /\ pret' = [pret EXCEPT ![t] =
                                       Ret("drop", IF failAt = "none" THEN "nil" ELSE "error",
                                           "none")]
    /\ UNCHANGED <<dbLocations, isStandby, dropHook, pmu, ppc, pcap, commitHookVars>>

\* SessionDatabase, lines 1113-1127: under the read lock the database of the base name
\* and *p.isStandby are read
sessionDatabaseRead(t, name) ==
    /\ callBegins(t, "lookup", name)
    /\ pmu = 0
    /\ pcap' = [pcap EXCEPT ![t] =
                   [db |-> databases[<<ToLower(name[1]), "">>], standby |-> isStandby]]
    /\ UNCHANGED <<databases, dbLocations, isStandby, dropHook, pmu, fs, commitHookVars>>

\* the types a revision resolves to in databaseForRevision, lines 754-817
RevTypes == {"branch", "tag", "none"}

\* databaseForRevision, lines 726-824: the database of the base name is read again
\* under the read lock; a branch gives a database of the kind stored (WithBranchRevision
\* of each kind is taken to return its own kind), a tag or a commit
\* a read-only database made from a Database (a ReadReplicaDatabase holds one), and the
\* result is <<kind>>, or <<>> when there is none
databaseForRevision(name, revType) ==
    LET srcDb == databases[<<ToLower(name[1]), "">>]
    IN  IF srcDb = "none" \/ revType = "none" THEN <<>>
        ELSE IF revType = "branch" THEN <<srcDb>>
        ELSE IF srcDb \in {"Database", "ReadReplicaDatabase"} THEN <<"ReadOnlyDatabase">>
        ELSE <<>>

\* SessionDatabase, lines 1129-1191: the rest of the lookup, with the value of standby
\* read before; headOk says whether the session or the database names a head for a name
\* without a revision
sessionDatabaseReturn(t, revType, headOk) ==
    /\ ppc[t] = "lookup"
    /\ LET db == pcap[t].db
           standby == pcap[t].standby
           rev == databaseForRevision(parg[t], revType)
       IN  IF db = "none"
           THEN /\ revType = "none" /\ headOk
                /\ callReturns(t, Ret("lookup", "nil", "none"), <<>>)
           ELSE IF ~Versioned(db)
           THEN /\ revType = "none" /\ headOk
                /\ callReturns(t, Ret("lookup", "nil", wrapForStandby(db, standby)), <<>>)
           ELSE IF ~headOk
           THEN /\ parg[t][2] = "" /\ revType = "none"
                /\ callReturns(t, Ret("lookup", "error", "none"), <<>>)
           ELSE /\ pmu = 0
                /\ IF rev = <<>>
                   THEN callReturns(t, Ret("lookup", IF revType = "none" THEN "ErrDatabaseNotFound"
                                                     ELSE "nil", "none"), <<revType>>)
                   ELSE callReturns(t, Ret("lookup", "nil", wrapForStandby(rev[1], standby)),
                                    <<revType>>)
    /\ UNCHANGED <<databases, dbLocations, isStandby, dropHook, pmu, fs, parg, pcap, pcalls,
                   commitHookVars>>

NextProvider ==
    \/ \E b \in BOOLEAN : SetIsStandby(b)
    \/ \E t \in Threads, base \in Bases : createCall(t, base)
    \/ \E t \in Threads : createLock(t)
    \/ \E t \in Threads, failAt \in {"none", "MkDirs", "InitRepo", "NewDatabase", "InitDatabaseHook"} :
           createBody(t, failAt)
    \/ \E t \in Threads, base \in Bases : cloneBegin(t, base)
    \/ \E t \in Threads, failAt \in {"none", "GetRemoteDB", "EnvForClone", "CloneRemote"},
          made \in BOOLEAN : cloneRemote(t, failAt, made)
    \/ \E t \in Threads, failAt \in {"none", "NewDatabase", "InitDatabaseHook"} :
           cloneLocal(t, failAt)
    \/ \E t \in Threads, deleteOk \in BOOLEAN : cloneCleanup(t, deleteOk)
    \/ \E t \in Threads, ok \in BOOLEAN : cloneConfigure(t, ok)
    \/ \E t \in Threads, b \in Bases, r \in Revs,
          failAt \in {"none", "Close", "DeleteFromSingletonCache", "Abs", "Delete",
                      "invalidateDbStateInAllSessions"} : DropDatabase(t, <<b, r>>, failAt)
    \/ \E t \in Threads, b \in Bases, r \in Revs : sessionDatabaseRead(t, <<b, r>>)
    \/ \E t \in Threads, revType \in RevTypes, headOk \in BOOLEAN :
           sessionDatabaseReturn(t, revType, headOk)

\* a provider made with databases, beside a hook that no thread drives
InitProvider == InitCommitHook /\ role = RolePrimary /\ NewDoltDatabaseProviderWithDatabases

SpecProvider == InitProvider /\ [][NextProvider]_vars

\* ---- properties ----

\* C1: at most one replicate attempt (attemptReplicate between releasing the mutex
\* and acquiring it again) is in flight at any moment
C1_AtMostOneAttempt == inflightPushes <= 1

\* an attempt is in flight while a session thread has stored a newer head
C1_Witness ==
    /\ inflightPushes = 1
    /\ wpc = "push"
    /\ execRet # NoCall
    /\ toPush # nextHead

\* C2: the channel of a blocking waitF is closed only after a push has succeeded of
\* the head of its Execute or of a head that Execute stored in nextHead after it
C2_WaitReturnsAfterPush ==
    (waiter.ch # 0 /\ chans[waiter.ch] = "closed") => waiter.sat

\* C3: a channel that was open when the shutdown began (the context cancelled or
\* databaseWasDropped called) is closed by the time the replicate goroutine has returned
C3_NoChannelLeftOpen ==
    wpc = "done" => \A c \in shutdownOpen : chans[c] = "closed"

\* C4: while the role stays primary and the hook is not shut down, once the Execute
\* calls have stopped the hook reaches and keeps lastPushedHead = nextHead, with
\* nextHead a head that was stored
C4_LatestHeadPushed == <>[](nextHead # ZeroHash /\ lastPushedHead = nextHead)

\* every call from outside has been made, a push had failed, and the head is pushed
C4_Witness ==
    /\ calls = MaxCalls
    /\ execRet # NoCall
    /\ currentError = NoError
    /\ nextHead # ZeroHash
    /\ lastPushedHead = nextHead
    /\ lastSuccess > 1
    /\ wpc = "wait"

\* C5: with fastFailReplicationWait set, Execute on a primary hook appends no channel
\* and returns the failing waitF, or no waitF when the root it read is the pushed head
C5_FastFailExecute ==
    [][\A root \in Heads :
          (Execute(root) /\ role = RolePrimary /\ fastFailReplicationWait) =>
              /\ successChs' = successChs
              /\ chans' = chans
              /\ execRet' = IF root = lastPushedHead THEN WaitNil ELSE WaitFastFail]_vars

C5_Witness ==
    /\ execRet = WaitFastFail
    /\ role = RolePrimary
    /\ fastFailReplicationWait
    /\ nextHead # lastPushedHead

\* C6: after NotifyWaitFailed and a later successful push, fastFailReplicationWait is
\* false once the replicate goroutine waits again
C6_BreakerClosedByPush ==
    (wpc = "wait" /\ pushedSinceFastFail) => ~fastFailReplicationWait

\* C7: Execute on a hook that is not primary returns no waitF, changes none of
\* nextHead, nextHeadIncomingTime, nextPushAttempt, lastPushedHead, successChs and
\* fastFailReplicationWait, and does not signal
C7_ExecuteNotPrimary ==
    [][\A root \in Heads :
          (Execute(root) /\ role # RolePrimary) =>
              /\ execRet' = WaitNil
              /\ UNCHANGED <<nextHead, nextHeadIncomingTime, nextPushAttempt,
                             lastPushedHead, successChs, fastFailReplicationWait, wpc,
                             chans>>]_vars

\* the one call made on a hook constructed as standby is an Execute
C7_Witness ==
    /\ role = RoleStandby
    /\ setRoleArg = "none"
    /\ calls = 1
    /\ execRet = WaitNil
    /\ wpc = "wait"

\* C8: Execute on a primary hook stores the root in nextHead; if the root differs from
\* the old nextHead it clears nextPushAttempt and signals; it leaves lastPushedHead;
\* and it returns no waitF exactly when nextHead = lastPushedHead afterwards
C8_ExecutePrimary ==
    [][\A root \in Heads :
          (Execute(root) /\ role = RolePrimary) =>
              /\ nextHead' = root
              /\ root # nextHead => (nextPushAttempt' = ZeroTime /\ wpc' = Signal(wpc))
              /\ lastPushedHead' = lastPushedHead
              /\ (execRet' = WaitNil) <=> (nextHead' = lastPushedHead')]_vars

\* the one call made on a primary hook is an Execute of a head that is not pushed yet
C8_Witness ==
    /\ role = RolePrimary
    /\ setRoleArg = "none"
    /\ calls = 1
    /\ execRet[1] = "wait"
    /\ nextHead # lastPushedHead
    /\ nextPushAttempt = ZeroTime

\* C9: when setRole(r) returns the role is r, nextHead, lastPushedHead, lastSuccess and
\* nextPushAttempt are zero, currentError is nil or the split-primary message, the
\* attempt in flight is cancelled, and isCaughtUp() holds for r not primary
C9_SetRoleReturns ==
    [][setRoleReturn =>
          /\ role' = setRoleArg'
          /\ nextHead' = ZeroHash
          /\ lastPushedHead' = ZeroHash
          /\ lastSuccess' = ZeroTime
          /\ nextPushAttempt' = ZeroTime
          /\ currentError' = (IF setRoleArg' = RoleDetectedBrokenConfig
                              THEN errDetectedBrokenConfigStr ELSE NoError)
          /\ inflightPushes' > 0 => cancelCalled'
          /\ setRoleArg' # RolePrimary =>
                 CaughtUp(role', nextHead', lastPushedHead')]_vars

\* C10: from the return of setRole(RoleDetectedBrokenConfig) to the next setRole,
\* currentError is the split-primary message whenever status() can read it, and no
\* replicate attempt starts
C10_BrokenConfigReported ==
    [][(setRoleArg' = RoleDetectedBrokenConfig /\ spc' = "idle") =>
          /\ mu' = "none" => currentError' = errDetectedBrokenConfigStr
          /\ (setRoleArg = RoleDetectedBrokenConfig /\ spc = "idle") =>
                 inflightPushes' <= inflightPushes]_vars

\* C11: within one role epoch lastPushedHead is the zero hash it had when the role was
\* set, or a value nextHead has held since then (the pair of observations that starts
\* at the role change)
C11_PushedHeadWasNextHead == lastPushedHead \in epochHeads

\* C12: an attempt whose remote calls all succeeded and that finds the role primary
\* returns with currentError nil, lastPushedHead = toPush, lastSuccess the incoming
\* time it captured, nextPushAttempt zero, the destination root toPush, and every
\* channel it captured closed
C12_AttemptSucceeds ==
    [][(attemptFinish /\ role = RolePrimary /\ err = NoError) =>
          /\ currentError' = NoError
          /\ lastPushedHead' = toPush
          /\ lastSuccess' = incomingTime
          /\ nextPushAttempt' = ZeroTime
          /\ destRoot' = toPush
          /\ \A i \in 1..Len(capturedChs) : chans'[capturedChs[i]] = "closed"]_vars

\* an attempt has just returned after a success that closed the channel of a waitF,
\* for a head that came in before the present time
C12_Witness ==
    /\ wpc = "check"
    /\ role = RolePrimary
    /\ currentError = NoError
    /\ lastPushedHead # ZeroHash
    /\ destRoot = lastPushedHead
    /\ lastSuccess # ZeroTime
    /\ lastSuccess < now
    /\ waiter.ch # 0
    /\ waiter.sat
    /\ chans[waiter.ch] = "closed"

\* C13: an attempt with a failed remote call that finds the role primary returns with
\* currentError a message that ends in the error, lastPushedHead and lastSuccess as
\* they were, the channels it captured back in successChs and open, and
\* nextPushAttempt set to now + 1 exactly when toPush = nextHead
C13_AttemptFails ==
    [][(attemptFinish /\ role = RolePrimary /\ err # NoError) =>
          /\ Len(currentError') > Len(err)
          /\ SubSeq(currentError', Len(currentError') - Len(err) + 1, Len(currentError')) = err
          /\ lastPushedHead' = lastPushedHead
          /\ lastSuccess' = lastSuccess
          /\ \A i \in 1..Len(capturedChs) :
                /\ chans'[capturedChs[i]] = "open"
                /\ \E j \in 1..Len(successChs') : successChs'[j] = capturedChs[i]
          /\ nextPushAttempt' = IF toPush = nextHead THEN now + 1 ELSE nextPushAttempt]_vars

\* the destination root had moved: the error is reported, the backoff is set and the
\* channel of the waitF is back in successChs
C13_Witness ==
    /\ wpc = "check"
    /\ role = RolePrimary
    /\ currentError = ErrCommitChunks(errDestDBRootHashMoved)
    /\ nextPushAttempt = now + 1
    /\ lastPushedHead # nextHead
    /\ Len(successChs) > 0
    /\ chans[successChs[1]] = "open"

\* C14: a role change, the cancellation of the context and databaseWasDropped, when
\* they happen with a replicate attempt in flight, each leave the context of that
\* attempt cancelled
C14_AttemptCancelled ==
    [][(/\ inflightPushes > 0
        /\ \/ \E r \in Roles : setRole(r)
           \/ ctxCancel
           \/ databaseWasDropped) => attemptCtxDone']_vars

\* C15: once databaseWasDropped has been called or the context is cancelled, the
\* replicate goroutine and the ticker goroutine both return in the end
C15_GoroutinesExit == (shutdown \/ ctxDone) ~> (wpc = "done" /\ tpc = "done")

\* C16: a blocking waitF whose caller cancels its context while its channel is open
\* returns the error of that context and changes nothing of the hook: the channel
\* stays where it is, nextHead stays, and the replicate goroutine is where it was
C16_WaitCancelled ==
    [][(waitFCtxDone /\ chans[execRet[2]] = "open") =>
          /\ waitFRet' = "context canceled"
          /\ UNCHANGED <<hookVars, shutdown, mu, wpc, shouldHeartbeat, localVars, chans>>]_vars

\* the waitF has returned the context's error, its channel is open and still held by
\* the hook, and the head is still to be pushed
C16_Witness ==
    /\ waitFRet = "context canceled"
    /\ execRet[1] = "wait"
    /\ chans[execRet[2]] = "open"
    /\ \/ \E i \in 1..Len(successChs) : successChs[i] = execRet[2]
       \/ \E i \in 1..Len(capturedChs) : capturedChs[i] = execRet[2]
    /\ role = RolePrimary
    /\ nextHead # lastPushedHead

\* C17: status() returns a lag exactly when the role is primary and lastPushedHead is
\* not zero, the lag being now - lastSuccess when nextHead # lastPushedHead and zero
\* otherwise; lastUpdate is lastSuccess when that is not zero and absent otherwise;
\* err is currentError; and no field of the hook changes
C17_Status ==
    [][status =>
          LET ret == statusRet'[1]
              hasLag == role = RolePrimary /\ lastPushedHead # ZeroHash
          IN  /\ (ret.replicationLag # <<>>) <=> hasLag
              /\ (hasLag /\ nextHead # lastPushedHead) =>
                     ret.replicationLag = <<now - lastSuccess>>
              /\ (hasLag /\ nextHead = lastPushedHead) => ret.replicationLag = <<0>>
              /\ lastSuccess # ZeroTime => ret.lastUpdate = <<lastSuccess>>
              /\ lastSuccess = ZeroTime => ret.lastUpdate = <<>>
              /\ ret.currentErr = currentError
              /\ UNCHANGED <<hookVars, shutdown, mu, wpc, shouldHeartbeat, localVars,
                             chans>>]_vars

\* status() has reported a lag that is not zero for a head that came in after the
\* last success
C17_Witness ==
    /\ statusRet # <<>>
    /\ statusRet[1].replicationLag # <<>>
    /\ statusRet[1].replicationLag # <<0>>
    /\ statusRet[1].lastUpdate # <<>>
    /\ nextHeadIncomingTime > lastSuccess

\* C18: setWaitNotify(f) with f not nil and a callback installed returns false without
\* calling f and leaves the slot; with the slot empty it calls f once, installs it and
\* returns true; setWaitNotify(nil) empties the slot and returns true
C18_WaitNotifySlot ==
    [][\A f \in Callbacks \cup {"nil"} :
          setWaitNotify(f) =>
              LET ret == setWaitNotifyRet'[1]
              IN  /\ (f # "nil" /\ waitNotify # "nil") =>
                         (~ret.ok /\ ret.called = 0 /\ waitNotify' = waitNotify)
                  /\ (f # "nil" /\ waitNotify = "nil") =>
                         (ret.ok /\ ret.called = 1 /\ waitNotify' = f)
                  /\ f = "nil" => (ret.ok /\ ret.called = 0 /\ waitNotify' = "nil")]_vars

\* a second callback has been refused while the first is installed
C18_Witness ==
    /\ waitNotify \in Callbacks
    /\ setWaitNotifyRet = <<[ok |-> FALSE, called |-> 0]>>

\* Execute(root) is called on the primary after an Execute(root) that returned a
\* blocking waitF, with no role change and no failure in between
SecondExecute(root) ==
    /\ Execute(root)
    /\ role = RolePrimary
    /\ prevExec # <<>>
    /\ prevExec[1].root = root

C20_LastSuccessMonotone ==
    [][(attemptFinish /\ role = RolePrimary /\ err = NoError) =>
           /\ lastSuccess' = incomingTime
           /\ lastSuccess' >= lastSuccess]_vars

\* status() saw the time of one successful push, and a later push of another head in
\* the same epoch has stored a later time
C20_Witness ==
    /\ role = RolePrimary
    /\ setRoleArg = "none"
    /\ statusRet # <<>>
    /\ statusRet[1].lastUpdate # <<>>
    /\ lastSuccess > statusRet[1].lastUpdate[1]
    /\ lastPushedHead = nextHead

\* an attempt finishes with success: the role is primary and no call failed
attemptSucceeds == attemptFinish /\ role = RolePrimary /\ err = NoError

\* C21: a failure of the destination factory is reported in currentError, which stays
\* non-nil until a later attempt succeeds (or setRole resets the hook, or the receiver
\* of a standby records a commit of the primary); the failed
\* attempt returns to the loop of the worker, which ends only on shutdown or when its
\* context is done; the later attempt that succeeds clears currentError and stores in
\* lastPushedHead the head that was nextHead when it started
C21_FailureReportedAndRetried ==
    /\ [][attemptDestDBFError => currentError' = ErrFetchDestDB(errRemote)]_vars
    /\ [][(currentError # NoError /\ currentError' = NoError) =>
              \/ attemptSucceeds
              \/ \E r \in Roles : setRole(r)
              \/ role = RoleStandby /\ recordSuccessfulRemoteSrvCommit]_vars
    /\ [][attemptDestDBFReturn => wpc' = IF lastAttempt THEN "done" ELSE "check"]_vars
    /\ [][(wpc # "done" /\ wpc' = "done") => (shutdown \/ ctxDone)]_vars
    /\ [][(replicateAttempt \/ replicateCtxLastAttempt) => toPush' = nextHead]_vars
    /\ [][attemptSucceeds => (currentError' = NoError /\ lastPushedHead' = toPush)]_vars

\* status() saw the error of the destination factory, and a later attempt has
\* succeeded with no setRole in between
C21_Witness ==
    /\ setRoleArg = "none"
    /\ statusRet # <<>>
    /\ statusRet[1].currentErr = ErrFetchDestDB(errRemote)
    /\ destDB
    /\ currentError = NoError
    /\ lastPushedHead # ZeroHash
    /\ lastPushedHead = nextHead
    /\ wpc \notin {"done", "start"}

\* C27: an attempt that ends when the role is not primary leaves lastPushedHead,
\* lastSuccess, nextPushAttempt and currentError alone, whether it ends after the
\* remote calls (attemptFinish) or in the failure path of the destination factory
\* (attemptDestDBFError, attemptDestDBFReturn), and puts the channels it took back
\* into successChs without closing them
C27_NoEffectWhenNotPrimary ==
    /\ [][(role # RolePrimary /\ (attemptFinish \/ attemptDestDBFError \/ attemptDestDBFReturn)) =>
              UNCHANGED <<lastPushedHead, lastSuccess, nextPushAttempt, currentError>>]_vars
    /\ [][(role # RolePrimary /\ (attemptFinish \/ attemptDestDBFReturn)) =>
              /\ successChs' = successChs \o capturedChs
              /\ chans' = chans]_vars

\* an attempt of the loop (not the last one under context.Background()) ends on a
\* primary hook, and a head other than the one it pushed has come in meanwhile
attemptEndsWithNewerHead ==
    /\ attemptFinish \/ attemptDestDBFReturn
    /\ role = RolePrimary
    /\ ~lastAttempt
    /\ nextHead # ZeroHash
    /\ nextHead # toPush

\* the channels of a sequence
ChansOf(chs) == {chs[i] : i \in 1..Len(chs)}

\* what C28 says of the channels: a successful attempt closes the channels it took
\* and leaves those registered since open in successChs; a channel is closed on
\* a primary hook only by the successful attempt that took it or, from successChs, when
\* nextHead is the pushed head
C28Channels ==
    /\ [][attemptSucceeds =>
              /\ \A c \in ChansOf(capturedChs) : chans'[c] = "closed"
              /\ successChs' = successChs
              /\ \A c \in ChansOf(successChs) : chans'[c] = "open"]_vars
    /\ [][\A c \in ChanIds :
              (chans[c] = "open" /\ chans'[c] = "closed" /\ role = RolePrimary) =>
                  \/ c \in ChansOf(capturedChs) /\ attemptSucceeds
                  \/ /\ c \in ChansOf(successChs)
                     /\ nextHead # ZeroHash
                     /\ nextHead = lastPushedHead]_vars

\* C28 as stated: when the attempt for H1 ends, with success or failure, and H2 has come
\* in, the worker goes on to its next iteration holding the mutex, with no backoff and
\* with shouldReplicate() true; and the channels are closed as C28Channels says
C28_NewerHeadPushedNext ==
    /\ [][attemptEndsWithNewerHead =>
              /\ wpc' = "check"
              /\ mu' = "worker"
              /\ nextPushAttempt' = ZeroTime
              /\ ~primaryNeedsInit'
              /\ shouldReplicate']_vars
    /\ C28Channels

\* C28, amended: the same, except that after a failed attempt for H1 the worker does
\* not push an H2 that is the head pushed last: the hook is then caught up
C28_NewerHeadPushedNextUnlessPushed ==
    /\ [][attemptEndsWithNewerHead =>
              /\ wpc' = "check"
              /\ mu' = "worker"
              /\ nextPushAttempt' = ZeroTime
              /\ ~primaryNeedsInit'
              /\ IF err # NoError /\ nextHead = lastPushedHead
                 THEN isCaughtUp' /\ ~shouldReplicate'
                 ELSE shouldReplicate']_vars
    /\ C28Channels

\* head 2 came in during the push of head 1, which has just succeeded: channel 1, taken
\* by the attempt, is closed, channel 2, registered with head 2, is open, and the
\* worker holds the mutex at the top of its loop
C28_Witness ==
    /\ role = RolePrimary
    /\ wpc = "check"
    /\ mu = "worker"
    /\ ~shouldHeartbeat
    /\ lastPushedHead = 1
    /\ nextHead = 2
    /\ chans[1] = "closed"
    /\ successChs = <<2>>
    /\ chans[2] = "open"
    /\ shouldReplicate

\* an attempt begins: in the loop, or as the last one once the context is done
attemptBegins == replicateAttempt \/ replicateCtxLastAttempt

\* C29: an attempt begins only when the role is primary, nextHead is not the zero hash
\* and differs from lastPushedHead, and nextPushAttempt is zero or not after now
C29_AttemptOnlyWhenShouldReplicate ==
    [][attemptBegins =>
           /\ role = RolePrimary
           /\ nextHead # ZeroHash
           /\ nextHead # lastPushedHead
           /\ nextPushAttempt = ZeroTime \/ now >= nextPushAttempt]_vars

\* C30 as stated: isCaughtUp() is true exactly when the role is not primary, or
\* nextHead is the zero hash, or nextHead is lastPushedHead
C30_CaughtUpWithZeroHead ==
    isCaughtUp <=> (role # RolePrimary \/ nextHead = ZeroHash \/ nextHead = lastPushedHead)

\* C30, amended: isCaughtUp() is true exactly when the role is not primary, or nextHead
\* is lastPushedHead and not the zero hash; a primary hook whose nextHead is still zero
\* is not caught up
C30_CaughtUpNotWithZeroHead ==
    isCaughtUp <=> (role # RolePrimary \/ (nextHead # ZeroHash /\ nextHead = lastPushedHead))

\* the context was cancelled before the primary hook loaded its head: isCaughtUp() was
\* false with nextHead zero, so shouldReplicate() held and the last attempt began
C30_Witness ==
    /\ role = RolePrimary
    /\ setRoleArg = "none"
    /\ lastAttempt
    /\ toPush = ZeroHash
    /\ wpc \in {"destDBF", "push"}

\* ---- properties of the database provider ----

\* the step a comes before the step b in the steps tr
Before(tr, a, b) == \E i, j \in 1..Len(tr) : i < j /\ tr[i] = a /\ tr[j] = b

\* the create of thread t returns in this step
createReturns(t) == ppc[t] = "create" /\ ppc'[t] = "idle"

\* C22: a create whose directory exists returns ErrDatabaseExists and leaves databases
\* and dbLocations as they are; creates run one at a time, and one succeeds only when it
\* makes the directory, so of concurrent creates of one name at most one succeeds; after
\* a success the database is in both maps under its lowercase name, with
\* InitDatabaseHook invoked before it was published; a create that fails, at
\* InitDatabaseHook or elsewhere, publishes nothing
C22_CreateExclusiveAndPublishes ==
    /\ [](\A t, u \in Threads : ppc[t] = "create" /\ ppc[u] = "create" => t = u)
    /\ [][\A t \in Threads : createReturns(t) =>
              LET base == parg[t][1]
                  key == <<ToLower(base), "">>
              IN  /\ fs[base] = "dir" =>
                         /\ pret'[t].err = "ErrDatabaseExists"
                         /\ UNCHANGED <<databases, dbLocations>>
                  /\ pret'[t].err = "nil" =>
                         /\ fs[base] = "none" /\ fs'[base] = "dir"
                         /\ databases'[key] # "none"
                         /\ dbLocations'[key[1]] # "none"
                         /\ Before(ptrace'[t], "InitDatabaseHook", "publish")
                  /\ pret'[t].err # "nil" => UNCHANGED <<databases, dbLocations>>
                  /\ (ptrace'[t] # <<>> /\ ptrace'[t][Len(ptrace'[t])] = "InitDatabaseHook") =>
                         /\ pret'[t].err # "nil"
                         /\ UNCHANGED <<databases, dbLocations>>]_vars

\* two threads created the database "Db": the first made the directory and published
\* the database under "db", the second found the directory
C22_Witness ==
    /\ ppc = [t \in Threads |-> "idle"]
    /\ parg = [t \in Threads |-> <<"Db", "">>]
    /\ pret[1] = Ret("create", "nil", "none")
    /\ pret[2] = Ret("create", "ErrDatabaseExists", "none")
    /\ databases[<<"db", "">>] = "Database"
    /\ dbLocations["db"] = "Db"

\* the clone of thread t returns an error in this step
cloneFails(t) ==
    /\ ppc[t] \in {"cloneCleanup", "cloneConfigure"}
    /\ ppc'[t] = "idle"
    /\ pret'[t].err # "nil"

\* the clone of thread t has stored its database in p.databases, line 596
clonePublished(t) == \E i \in 1..Len(ptrace'[t]) : ptrace'[t][i] = "publish"

\* C23: when a clone returns an error other than ErrDatabaseExists, whatever step
\* failed, the directory it made is gone unless the delete itself failed, and the
\* database it was making is not in the maps
C23_FailedCloneCleansUp ==
    [][\A t \in Threads : cloneFails(t) =>
           /\ pret'[t].err = "error" => fs'[parg[t][1]] = "none"
           /\ ~clonePublished(t)]_vars

\* thread t is at the calls of a clone to the remote: GetRemoteDB, EnvForClone and
\* CloneRemote, lines 546-564
atRemoteCall(t) == ppc[t] = "cloneRemote"

\* C26: while a thread is at the remote calls of a clone it does not hold p.mu, so the
\* calls of other threads can take the lock
C26_LockFreeDuringRemoteCalls ==
    \A t \in Threads : atRemoteCall(t) => pmu # t

\* thread t calls DropDatabase(name) in this step
drops(t, name) ==
    \E failAt \in {"none", "Close", "DeleteFromSingletonCache", "Abs", "Delete",
                   "invalidateDbStateInAllSessions"} : DropDatabase(t, name, failAt)

\* the number of times the step x is in the steps tr
Count(tr, x) == Cardinality({i \in 1..Len(tr) : tr[i] = x})

\* C24: after a successful DropDatabase(name) p.databases holds neither the lowercase
\* key of name nor a key of one of its revisions, and the entries of other databases
\* are as before; DropDatabaseHook, when one is set, was invoked once, before the
\* directory was deleted; a DropDatabase of a name with a revision returns an error
\* and changes nothing in the provider
C24_DropRemovesAll ==
    [][\A t \in Threads, b \in Bases, r \in Revs : drops(t, <<b, r>>) =>
           /\ pret'[t].err = "nil" =>
                  /\ \A k \in Keys : k[1] = ToLower(b) => databases'[k] = "none"
                  /\ \A k \in Keys : k[1] # ToLower(b) => databases'[k] = databases[k]
                  /\ dropHook =>
                         /\ Count(ptrace'[t], "DropDatabaseHook") = 1
                         /\ Before(ptrace'[t], "DropDatabaseHook", "Delete")
                  /\ Count(ptrace'[t], "Delete") = 1
           /\ r # "" =>
                  /\ pret'[t].err # "nil"
                  /\ UNCHANGED <<databases, dbLocations, fs, isStandby, dropHook, pmu>>]_vars

\* the database "other", stored with its revision "main", was dropped with a hook set
C24_Witness ==
    /\ pret[1] = Ret("drop", "nil", "none")
    /\ parg[1] = <<"other", "">>
    /\ dropHook
    /\ pcalls = 1
    /\ databases[<<"other", "">>] = "none"
    /\ databases[<<"other", "main">>] = "none"

\* the lookup of thread t returns in this step
lookupReturns(t) == ppc[t] = "lookup" /\ ppc'[t] = "idle"

\* C25: a lookup that returns a database while *p.isStandby is true, whatever the kind
\* of the database stored and also when SetIsStandby(true) ran between the lookup's
\* read of the flag and its return, returns a read-only database; with the flag false
\* all along, the lookup of a branch returns the database of the kind stored
C25_StandbyLookupsReadOnly ==
    [][\A t \in Threads : (lookupReturns(t) /\ pret'[t].db # "none") =>
           /\ isStandby => pret'[t].db = "ReadOnlyDatabase"
           /\ (~isStandby /\ ~pcap[t].standby /\ ptrace'[t] = <<"branch">>) =>
                  pret'[t].db = databases[<<ToLower(parg[t][1]), "">>]]_vars

\* ---- more properties of the hook ----

\* C31: a worker that saw its context cancelled leaves that point either by exiting,
\* when shouldReplicate() is false, or by starting one attempt whose context is new
\* and not cancelled; when that attempt ends, whatever its outcome, the worker has
\* exited; no attempt starts during it, and a worker that has exited stays so and
\* starts no attempt
C31_OneLastAttempt ==
    /\ [][(wpc = "cancelled" /\ wpc' # "cancelled") =>
              IF shouldReplicate
              THEN /\ lastAttempt' /\ ~attemptCtxDone'
                   /\ inflightPushes' = inflightPushes + 1
                   /\ wpc' \in {"destDBF", "push"}
              ELSE wpc' = "done" /\ inflightPushes' = inflightPushes]_vars
    /\ [][lastAttempt =>
              /\ inflightPushes' <= inflightPushes
              /\ ~lastAttempt' => wpc' = "done"]_vars
    /\ [][wpc = "done" => wpc' = "done" /\ inflightPushes' = inflightPushes]_vars

\* the last attempt of a cancelled worker has pushed and is about to finish
C31_Witness ==
    /\ ctxDone
    /\ lastAttempt
    /\ wpc = "finish"
    /\ err = NoError
    /\ toPush # ZeroHash

\* C32: when the read of the local root by a primary worker fails or gives the zero
\* hash, nextHead stays zero, and the worker releases the mutex and waits for a signal
\* before it reads the root again
C32_InitFailureWaits ==
    [][replicateInit(ZeroHash) =>
           /\ nextHead' = ZeroHash
           /\ mu' = "none"
           /\ wpc' = "wait"]_vars

\* C33: in an idle iteration the worker calls waitNotify once if one is installed and
\* nothing otherwise, holding the mutex and before it goes to wait on the condition
\* variable; an iteration that loads the head or runs an attempt calls nothing, and
\* nothing else counts as an iteration
C33_WaitNotifyOncePerIdle ==
    /\ [][replicateIdle =>
              /\ mu = "worker" /\ wpc # "wait"
              /\ iter'.kind = "idle"
              /\ iter'.notified = IF waitNotify = "nil" THEN <<>> ELSE <<waitNotify>>
              /\ wpc' \in {"heartbeat", "wait"}]_vars
    /\ [][((\E r \in Heads \cup {ZeroHash} : replicateInit(r)) \/ attemptBegins) =>
              iter'.kind # "idle" /\ iter'.notified = <<>>]_vars
    /\ [][iter' # iter =>
              \/ replicateIdle
              \/ \E r \in Heads \cup {ZeroHash} : replicateInit(r)
              \/ attemptBegins]_vars

\* the worker called the callback "f" in an idle iteration and waits
C33_Witness ==
    /\ waitNotify = "f"
    /\ iter.kind = "idle"
    /\ iter.notified = <<"f">>
    /\ wpc = "wait"

\* the idle iteration of this step issues the heartbeat Commit
heartbeats == replicateIdle /\ wpc' = "heartbeat"

\* the hook is a caught-up primary with a pushed head and a destination database
heartbeatPossible ==
    role = RolePrimary /\ isCaughtUp /\ lastPushedHead # ZeroHash /\ destDB

\* C34 as stated: a heartbeat Commit is issued only in an idle iteration of a caught-up
\* primary with a nonzero lastPushedHead and a destDB, never in the idle iteration that
\* directly follows an attempt, and in every other idle iteration of such a hook
C34_HeartbeatWhenCaughtUp ==
    /\ [][heartbeats => heartbeatPossible /\ iter.kind # "attempt"]_vars
    /\ [][(replicateIdle /\ heartbeatPossible /\ iter.kind # "attempt") =>
              wpc' = "heartbeat"]_vars

\* the heartbeat of this step: the Commit returns and attemptHeartbeat with it
heartbeatReturns == \E ok \in BOOLEAN : attemptHeartbeat(ok)

\* C35: a heartbeat whose destination has the root head leaves that root as it is, and
\* whether its Commit succeeds or not it changes none of nextHead, lastPushedHead,
\* lastSuccess, nextPushAttempt, currentError, the wait channels and the fast-fail
\* flag, neither when it begins nor when it returns; cancelReplicate is nil again when
\* it returns
C35_HeartbeatNoOp ==
    /\ [][heartbeatReturns =>
              /\ destRoot = head => destRoot' = destRoot
              /\ UNCHANGED <<nextHead, lastPushedHead, lastSuccess, nextPushAttempt,
                             currentError, successChs, chans, fastFailReplicationWait>>
              /\ cancelReplicate' = FALSE]_vars
    /\ [][heartbeats =>
              UNCHANGED <<nextHead, lastPushedHead, lastSuccess, nextPushAttempt,
                          currentError>>]_vars

\* a heartbeat is in flight for the head that is the root of the destination
C35_Witness ==
    /\ wpc = "heartbeat"
    /\ head # ZeroHash
    /\ destRoot = head
    /\ cancelReplicate
    /\ mu = "none"

\* lines 268-271: the worker is in h.destDBF, or has its result and has not stored it
destDBFCalled == wpc \in {"destDBF", "destDBFStore"}

\* C36: h.destDBF is called only by an attempt that found h.destDB nil, once per such
\* attempt; a database it returns is stored in h.destDB, which is never reset, by
\* setRole neither, so that no call follows a successful one
C36_DestDBFMemoized ==
    /\ [](destDBFCalled => ~destDB)
    /\ [][destDB => destDB']_vars
    /\ [][attemptDestDBFOk => ~destDB /\ wpc' = "destDBFStore"]_vars
    /\ [][(wpc = "destDBFStore" /\ wpc' # wpc) => destDB' /\ wpc' = "push"]_vars
    /\ [][attemptBegins => wpc' = IF destDB THEN "push" ELSE "destDBF"]_vars
    /\ [][(wpc' = "destDBF" /\ wpc # "destDBF") => attemptBegins]_vars
    /\ [][(wpc = "destDBF" /\ wpc' # wpc) => wpc' \in {"destDBFStore", "destDBFLock"}]_vars

\* a later attempt, made after a push has succeeded, pushes with the memoized database
C36_Witness ==
    /\ destDB
    /\ wpc = "push"
    /\ mu = "none"
    /\ lastPushedHead # ZeroHash
    /\ toPush # lastPushedHead

\* the fields of the hook that h.mu protects
stateFields == <<role, nextHead, lastPushedHead, nextPushAttempt, lastSuccess, currentError,
                 successChs, fastFailReplicationWait, cancelReplicate>>

\* lines 266-276 and 266-308: the worker has unlocked h.mu for h.destDBF or for the push
workerUnlocked == wpc \in {"destDBF", "push"}

\* C37: the fields of the hook are written under h.mu only: a step the worker takes
\* between its Unlock and its next Lock changes none of them, and while setRole holds
\* the mutex no step of another thread changes one
C37_FieldsUnderMutex ==
    /\ [][(workerUnlocked /\ wpc' # wpc) => UNCHANGED stateFields]_vars
    /\ [][(mu = "setRole" /\ spc' = spc) => UNCHANGED stateFields]_vars

\* C38: recordSuccessfulRemoteSrvCommit stores time.Now() in lastSuccess and nil in
\* currentError when the role is standby; in another role it changes no field, so the
\* error of RoleDetectedBrokenConfig and the lastSuccess of a primary stay
C38_RecordOnlyOnStandby ==
    /\ [][recordSuccessfulRemoteSrvCommit =>
              /\ IF role = RoleStandby
                 THEN lastSuccess' = now /\ currentError' = NoError
                 ELSE UNCHANGED <<lastSuccess, currentError>>
              /\ UNCHANGED <<role, nextHead, lastPushedHead, nextPushAttempt,
                             nextHeadIncomingTime, cancelReplicate, successChs, chans,
                             fastFailReplicationWait, destDB, wpc, mu>>]_vars
    /\ [][(role = RoleDetectedBrokenConfig /\ currentError = errDetectedBrokenConfigStr
              /\ spc = "idle" /\ spc' = "idle" /\ wpc' = wpc)
              => currentError' = errDetectedBrokenConfigStr]_vars

\* a standby whose receiver has recorded a commit of the primary
C38_Witness ==
    /\ role = RoleStandby
    /\ spc = "idle"
    /\ lastSuccess = now
    /\ currentError = NoError
    /\ lastPushedHead = ZeroHash

\* lines 276-282 and 308-333: an attempt takes h.mu again and ends, after setRole has
\* cancelled it (lines 411-414), in the role of primary
staleAttemptEnds ==
    /\ cancelCalled
    /\ role = RolePrimary
    /\ attemptFinish \/ attemptDestDBFReturn

\* C39: an attempt that setRole has cancelled while it was in flight, and that ends
\* when the role is primary again, leaves lastPushedHead, lastSuccess, currentError
\* and nextPushAttempt as setRole has set them, and closes no channel but those it
\* took when it began
C39_StaleAttemptWritesNothing ==
    [][staleAttemptEnds =>
           /\ UNCHANGED <<lastPushedHead, lastSuccess, currentError, nextPushAttempt>>
           /\ \A c \in DOMAIN chans :
                  chans'[c] # chans[c] => \E i \in DOMAIN capturedChs : capturedChs[i] = c]_vars

\* ---- more properties of the provider ----

\* FileSystemForDatabase, lines 174-186: the location stored for the base of the name,
\* in lower case, or the error of a database that is not found
FileSystemForDatabase(name) ==
    LET dbLocation == dbLocations[ToLower(name[1])]
    IN  IF dbLocation = "none"
        THEN [fs |-> "none", err |-> "ErrDatabaseNotFound"]
        ELSE [fs |-> dbLocation, err |-> "nil"]

\* C40: whenever no operation holds the mutex of the provider, a base name is a key of
\* p.databases exactly when it is a key of p.dbLocations: FileSystemForDatabase returns
\* a file system for each database of the provider and not-found for every other name
C40_MapsInStep ==
    pmu = 0 =>
        \A b \in Bases :
            databases[formatDbMapKeyName(<<b, "">>)] # "none"
                <=> FileSystemForDatabase(<<b, "">>).err = "nil"

====
